---- MODULE Spec2Model ----
(***************************************************************************)
(* Model of the logistics optimisation service:                            *)
(*   app/services/logistics_service.py  (LogisticsService)                 *)
(*   app/api/v1/endpoints/logistics.py  (the HTTP endpoints in front of it)*)
(* and of the writers of db.inventory that run beside it:                  *)
(*   app/services/inventory_service.py  (InventoryService)                 *)
(*   app/api/v1/endpoints/data_import.py (import_data)                     *)
(*                                                                         *)
(* Each specification follows one kind of run:                             *)
(*   SpecRoute : one route-optimisation request, from the endpoint or a    *)
(*               direct service call, through prepare / matrix / solve /   *)
(*               format / store.                                           *)
(*   SpecAlloc : one warehouse-allocation batch, every awaited query a     *)
(*               step of its own, in the runs where no other request       *)
(*               writes db.inventory while the batch is in progress.       *)
(*   SpecAllocLive : the same steps for a batch of one order, with other   *)
(*               requests creating, updating, deleting and importing       *)
(*               inventory documents between them, every database call    *)
(*               of theirs a step.                                         *)
(*   SpecPool  : several routing requests in flight on the one service     *)
(*               instance, their calculate() and solve() closures going    *)
(*               through the shared ThreadPoolExecutor; SpecPoolFair adds  *)
(*               that the threads keep taking work and that every running  *)
(*               closure returns.                                          *)
(*                                                                         *)
(* Real numbers (Python floats) are fixed-point integers: demands and      *)
(* capacities count FracUnits-ths of a unit, distances are the whole       *)
(* millimetres of the float, rounded results are hundredths. Python's      *)
(* int() is ToInt, truncation toward zero; round(x, 2) of a quotient of    *)
(* integers is RoundHundredths, which decides a decimal tie by the side    *)
(* on which the binary float of the quotient lies. The allocator adds,     *)
(* compares and rounds haversine distances: of those the model also holds  *)
(* the nanometres below the millimetre, and where a result hangs on what   *)
(* lies below the nanometres it is left to the step (LastBits).            *)
(*                                                                         *)
(* db.inventory has the unique index on sku that create_indexes            *)
(* (app/core/database.py) builds before the application serves its first   *)
(* request (main.py, lifespan): no two documents hold the same sku, a sku   *)
(* is held by one warehouse at most, and insert_one refuses a sku the       *)
(* collection holds.                                                       *)
(*                                                                         *)
(* The OR-Tools routing solver is a library, not code of the repository.   *)
(* It is modelled by its contract: SolveWithParameters returns some        *)
(* assignment that visits every node once and satisfies the dimensions     *)
(* the code declared on the model, or no solution.                         *)
(***************************************************************************)
EXTENDS Integers, Sequences, FiniteSets, Bags, TLC

VARIABLES
    pc,                  \* position of the routing request
    entry,               \* "endpoint" or "service": how the request came in
    delivery_requests,   \* request body: list of delivery request dicts
    vehicles,            \* request body: list of vehicle dicts
    locations,           \* _prepare_optimization_data: List[Location]
    vehicles_data,       \* _prepare_optimization_data: List[Vehicle]
    deliveries,          \* _prepare_optimization_data: List[Delivery]
    distance_matrix,     \* _calculate_distance_matrix result (mm), <<>> before
    solution,            \* what routing.SolveWithParameters returned
    search_end,          \* how the library's search ended
    optimization_result, \* dict returned by _solve_vrp
    result,              \* dict returned by optimize_delivery_routes
    response,            \* what the endpoint hands to the HTTP client
    store,               \* db.logistics_optimizations, a list of documents
    warehouse_doc,       \* what db.warehouses.find_one answers for the depot
    exception,           \* message of the exception the request raised
    insert_failed,       \* whether insert_one of the result raised
    apc,                 \* position of the allocation batch
    db_warehouses,       \* db.warehouses: the warehouse documents
    warehouse_ids,       \* _get_warehouses_with_inventory: warehouse_ids
    warehouses,          \* candidate list of the allocation call
    inventory,           \* db.inventory: the inventory documents
    orders,              \* the orders of the batch
    allocations,         \* allocations list built by the batch loop
    alloc_result,        \* dict returned by optimize_warehouse_allocation
    rpc,                 \* concurrent requests: position of each request
    rinput,              \* concurrent requests: the body of each request
    rlocals,             \* locations, vehicles, deliveries of each request
    rmatrix,             \* distance_matrix local of each request
    ropt,                \* optimization_result local of each request
    rresult,             \* what each request returned
    work_queue,          \* self.executor: work items not yet taken
    threads,             \* self.executor: work items its threads are running
    scan_w,              \* _find_best_warehouse_for_order: warehouse in turn
    scan_i,              \* _find_best_warehouse_for_order: line item in turn
    scan_st,             \* best_option, best_score of the scan so far
    can_fulfill,         \* _find_best_warehouse_for_order: can_fulfill
    covered,             \* warehouses that covered the order at some instant
    updates,             \* other requests on db.inventory begun so far
    alone,               \* results of the batch alone on a database it met
    writes               \* database calls the other requests await (a bag)

routeVars == <<pc, entry, delivery_requests, vehicles, locations, vehicles_data,
               deliveries, distance_matrix, solution, search_end,
               optimization_result, result, response, store, warehouse_doc,
               exception, insert_failed>>
allocVars == <<apc, db_warehouses, warehouse_ids, warehouses, inventory,
               orders, allocations, alloc_result>>
poolVars == <<rpc, rinput, rlocals, rmatrix, ropt, rresult, work_queue, threads>>
scanVars == <<scan_w, scan_i, scan_st, can_fulfill, covered, updates,
              alone, writes>>
vars == <<routeVars, allocVars, poolVars, scanVars>>

-----------------------------------------------------------------------------
(* Bounds and input domains                                                *)

MaxDeliveries == 2
FleetSizes == {0, 1, 2}
MaxOrders == 2
FracUnits == 2

CustomerIds == {"CUST_A", "CUST_B"}
Weights == {1, 3}
Capacities == {0, 2}
MaxDistancesKm == {0, 1, 5}

None == [none |-> TRUE]

\* the requests in flight on the one service instance
Requests == {1, 2, 3}

-----------------------------------------------------------------------------
(* Arithmetic helpers                                                      *)

Abs(x) == IF x >= 0 THEN x ELSE -x

ToInt(x) == IF x >= 0 THEN x \div FracUnits ELSE -((-x) \div FracUnits)

RECURSIVE SumSeq(_)
SumSeq(s) == IF s = <<>> THEN 0 ELSE Head(s) + SumSeq(Tail(s))

Prefixes(s) == {SubSeq(s, 1, k) : k \in 0..Len(s)}

MaxOf(S) == CHOOSE x \in S : \A y \in S : y <= x

RECURSIVE Pow2(_)
Pow2(n) == IF n = 0 THEN 1 ELSE 2 * Pow2(n - 1)

\* (x * 2^times) mod modulus
RECURSIVE Doubled(_, _, _)
Doubled(x, times, modulus) ==
    IF times = 0 THEN x % modulus
    ELSE Doubled((2 * x) % modulus, times - 1, modulus)

RECURSIVE ExponentUp(_, _, _)
ExponentUp(m, d, k) ==
    IF m < d * Pow2(k + 1) THEN k ELSE ExponentUp(m, d, k + 1)

RECURSIVE ExponentDown(_, _, _)
ExponentDown(m, d, j) ==
    IF m * Pow2(j) >= d THEN -j ELSE ExponentDown(m, d, j + 1)

\* the binary exponent of the quotient m / d of two positive integers:
\* the k with 2^k <= m / d < 2^(k + 1)
FloatExponent(m, d) ==
    IF m >= d THEN ExponentUp(m, d, 0) ELSE ExponentDown(m, d, 1)

\* a Python float is an IEEE-754 double: 52 bits after the leading one
MantissaBits == 52

\* The sign of  fl(fl(m / 1000) / n) - m / (1000 * n)  for integers m >= 0
\* and n >= 1, fl being the rounding of a quotient to the nearest double.
\* With q1 the mantissa of fl(m / 1000) and r1, r2 the signed remainders the
\* two roundings leave, the difference has the sign of -(r1 * 2^s + 1000 r2).
FloatErrorSign(m, n) ==
    IF m = 0 THEN 0
    ELSE LET k == FloatExponent(m, 1000)
             e1 == MantissaBits - k
             rho == Doubled(m % 1000, e1, 1000)
             r1 == IF rho < 500 THEN rho ELSE rho - 1000
             A == Doubled(m % (1000 * n), e1, 1000 * n)
             q1 == ((A - r1 + 1000 * n) % (1000 * n)) \div 1000
             a == FloatExponent(n, 1)
             ge == IF k >= 0
                   THEN m * Pow2(a) >= n * 1000 * Pow2(k)
                   ELSE m * Pow2(a) * Pow2(-k) >= n * 1000
             s == IF ge THEN a ELSE a + 1
             B == IF n > 1 THEN Doubled(q1, s, n) ELSE 0
             r2 == IF 2 * B < n THEN B ELSE B - n
             t == r1 * Pow2(s) + 1000 * r2
         IN  IF t > 0 THEN -1 ELSE IF t < 0 THEN 1 ELSE 0

\* round((m / 1000) / n, 2) in hundredths, for an int m >= 0 and n >= 1:
\* Python rounds the float it holds, so a decimal tie goes the way the
\* float's error points, and to the even hundredth when there is none
RoundHundredths(m, n) ==
    LET h == m \div (10 * n)
        r == m % (10 * n)
        sg == FloatErrorSign(m, n)
    IN  IF 2 * r < 10 * n THEN h
        ELSE IF 2 * r > 10 * n THEN h + 1
        ELSE IF sg > 0 THEN h + 1
        ELSE IF sg < 0 THEN h
        ELSE IF h % 2 = 0 THEN h ELSE h + 1

-----------------------------------------------------------------------------
(* Lists are sequences; the code's 0-based index i is position i + 1.      *)

At(list, i) == list[i + 1]

-----------------------------------------------------------------------------
(* _prepare_optimization_data                                              *)

WarehouseId == "WH001"

\* Latitudes are offsets from 40.7128 in hundredths of a degree, longitudes
\* offsets from -74.0060 in ten-thousandths of a degree. A request of the
\* model names its customer_id and its weight; it names a latitude or
\* leaves it to the default 40.7128 + i * 0.01, and it leaves its longitude
\* to the default -74.0060 + i * 0.01.
WarehouseLat == 0
WarehouseLon == 0

\* 0.01 degree of longitude
LonStep == 100

DefaultServiceTime == 30

\* the latitudes a request names
RequestLatitudes == {2}

DeliveryRequests ==
    [customer_id : CustomerIds, weight : Weights]
    \cup [customer_id : CustomerIds, weight : {1}, latitude : RequestLatitudes]

\* the vehicle dicts of a request: a capacity and a max_distance in km, at
\* most one of them not positive, the max_distance of a vehicle without
\* capacity being the largest one
VehicleDicts ==
    {v \in [capacity : Capacities, max_distance : MaxDistancesKm] :
        v.capacity > 0 \/ v.max_distance = MaxOf(MaxDistancesKm)}

\* latitude of the warehouse document the database holds for the depot
DbWarehouseLat == 1

\* db.warehouses.find_one raised (the database cannot be reached)
DbError == [raises |-> "database unavailable"]

\* what find_one can answer: no document, the document, or an exception
FindOneOutcomes ==
    {None, [name |-> "Central", latitude |-> DbWarehouseLat], DbError}

\* the mock warehouse the code puts in place of a document it did not find
MockWarehouse ==
    [name |-> "Warehouse " \o WarehouseId, latitude |-> WarehouseLat,
     longitude |-> WarehouseLon]

\* the fallback left out: the Location built from an empty document, every
\* field from the default of its .get()
DepotWithoutMock(doc) ==
    LET w == IF doc = None THEN [latitude |-> WarehouseLat] ELSE doc
    IN  [id |-> WarehouseId,
         name |-> IF "name" \in DOMAIN w THEN w.name ELSE "Warehouse",
         latitude |-> w.latitude,
         longitude |-> WarehouseLon,
         type |-> "warehouse"]

\* locations[0]: the depot, from the document or from the mock warehouse
Depot(doc) ==
    LET warehouse == IF doc = None THEN MockWarehouse ELSE doc
    IN  [id |-> WarehouseId,
         name |-> warehouse.name,
         latitude |-> warehouse.latitude,
         longitude |-> IF "longitude" \in DOMAIN warehouse
                       THEN warehouse.longitude ELSE WarehouseLon,
         type |-> "warehouse"]

PrepareLocations(doc, reqs) ==
    <<Depot(doc)>> \o
    [k \in 1..Len(reqs) |->
        [id |-> reqs[k].customer_id,
         name |-> "Customer " \o reqs[k].customer_id,
         latitude |-> IF "latitude" \in DOMAIN reqs[k]
                      THEN reqs[k].latitude ELSE WarehouseLat + (k - 1),
         longitude |-> IF "longitude" \in DOMAIN reqs[k]
                       THEN reqs[k].longitude
                       ELSE WarehouseLon + (k - 1) * LonStep,
         type |-> "customer"]]

PrepareVehicles(vs) ==
    [k \in 1..Len(vs) |->
        [id |-> k - 1,
         capacity |-> vs[k].capacity,
         max_distance |-> vs[k].max_distance]]

PrepareDeliveries(reqs) ==
    [k \in 1..Len(reqs) |->
        [id |-> k - 1,
         customer_location_id |-> reqs[k].customer_id,
         demand |-> reqs[k].weight,
         service_time |-> DefaultServiceTime]]

-----------------------------------------------------------------------------
(* _calculate_haversine_distance and _calculate_distance_matrix            *)

\* 6371 km * pi / 180 * 0.01 degree = 1.1119492664456 km: on one meridian
\* the haversine formula reduces to r * |dlat|. The whole millimetres of
\* one hundredth of a degree, and the rest in tenths of a nanometre.
MmPerCentiDegree == 1111949
RestPerCentiDegree == 2664456

\* the whole millimetres of the distance between two points of one meridian
MeridianMm(dlat) ==
    MmPerCentiDegree * dlat + (RestPerCentiDegree * dlat) \div 10000000

\* order.get("customer_longitude", -73.9851) against
\* warehouse.get("longitude", -74.0060)
DefaultCustomerLon == 209

\* the whole millimetres the code's formula gives for two points 0.0100,
\* 0.0200 or 0.0209 degree of longitude apart, by the offsets 0..3 of their
\* latitudes (row: offset of the one + 1, column: offset of the other + 1)
OffMeridianTable ==
    100 :> <<<<842844, 1395246, 2378213, 3440631>>,
             <<1395246, 842718, 1395169, 2378168>>,
             <<2378213, 1395169, 842591, 1395093>>,
             <<3440631, 2378168, 1395093, 842465>>>>
    @@
    200 :> <<<<1685689, 2019295, 2790415, 3737398>>,
             <<2019295, 1685436, 2019084, 2790262>>,
             <<2790415, 2019084, 1685183, 2018872>>,
             <<3737398, 2790262, 2018872, 1684930>>>>
    @@
    209 :> <<<<1761545, 2083028, 2836870, 3772204>>,
             <<2083028, 1761281, 2082805, 2836706>>,
             <<2836870, 2082805, 1761016, 2082581>>,
             <<3772204, 2836706, 2082581, 1760751>>>>

OffMeridianMm(lat_a, lat_b, dlon) == OffMeridianTable[dlon][lat_a + 1][lat_b + 1]

\* the nanometres below the whole millimetres of the same distances, for
\* the latitudes 40.7128 + k * 0.01; another float of the same hundredth of
\* a degree moves them by a nanometre or two
OffMeridianRest ==
    100 :> <<<<908540, 218697, 365028, 909443>>,
             <<218697, 308953, 743643, 498400>>,
             <<365028, 743643, 683695, 260384>>,
             <<909443, 498400, 260384, 32771>>>>
    @@
    200 :> <<<<814350, 550559, 950249, 843432>>,
             <<550559, 615175, 181417, 991930>>,
             <<950249, 181417, 364659, 779058>>,
             <<843432, 991930, 779058, 62809>>>>
    @@
    209 :> <<<<855645, 779325, 858664, 384872>>,
             <<779325, 262507, 20909, 559355>>,
             <<858664, 20909, 615718, 226715>>,
             <<384872, 559355, 226715, 915285>>>>

\* the nanometres below the whole millimetres on one meridian
MeridianRest(dlat) == ((RestPerCentiDegree * dlat) % 10000000) \div 10

\* great-circle distance in whole millimetres (the code's kilometres *
\* 10^6, floored)
HaversineMm(lat1, lon1, lat2, lon2) ==
    IF lon1 = lon2 THEN MeridianMm(Abs(lat2 - lat1))
    ELSE OffMeridianMm(lat1, lat2, Abs(lon2 - lon1))

\* what the float of the distance holds below the millimetre, in whole
\* nanometres
HaversineRest(lat1, lon1, lat2, lon2) ==
    IF lon1 = lon2 THEN MeridianRest(Abs(lat2 - lat1))
    ELSE OffMeridianRest[Abs(lon2 - lon1)][lat1 + 1][lat2 + 1]

\* the matrix with only the entries above the diagonal computed
CalculateMatrixUpper(locs) ==
    [i \in 1..Len(locs) |->
        [j \in 1..Len(locs) |->
            IF i < j THEN HaversineMm(locs[i].latitude, locs[i].longitude,
                                      locs[j].latitude, locs[j].longitude)
                     ELSE 0]]

\* matrix[i][j] = distance * 1000 (metres as a float), kept here in mm
CalculateMatrix(locs) ==
    [i \in 1..Len(locs) |->
        [j \in 1..Len(locs) |->
            IF i # j THEN HaversineMm(locs[i].latitude, locs[i].longitude,
                                      locs[j].latitude, locs[j].longitude)
                     ELSE 0]]

-----------------------------------------------------------------------------
(* _solve_vrp: the callbacks and dimensions the code declares              *)

\* int(distance_matrix[from_node][to_node]): whole metres
DistanceCallback(matrix, from_node, to_node) ==
    At(At(matrix, from_node), to_node) \div 1000

\* the deliveries whose customer_location_id equals the node's location id,
\* in list order
MatchingDeliveries(locs, dels, node) ==
    SelectSeq(dels, LAMBDA d : At(locs, node).id = d.customer_location_id)

DemandCallback(locs, dels, from_node) ==
    IF from_node = 0 THEN 0
    ELSE LET m == MatchingDeliveries(locs, dels, from_node)
         IN  IF m # <<>> THEN ToInt(Head(m).demand) ELSE 0

\* [int(vehicle.capacity) for vehicle in vehicles]
VehicleCapacities(vs) == [k \in 1..Len(vs) |-> ToInt(vs[k].capacity)]

\* the capacity AddDimension gives the Distance dimension of every vehicle:
\* int(max(v.max_distance * 1000 for v in vehicles)), in whole metres
DistanceLimit(vs, vehicle_id) ==
    MaxOf({vs[k].max_distance * 1000 : k \in 1..Len(vs)})

-----------------------------------------------------------------------------
(* Contract of the routing library                                         *)

\* the nodes a vehicle visits, depot first and last
Path(route) == <<0>> \o route \o <<0>>

\* arc costs along a route, in whole metres
ArcCosts(matrix, route) ==
    LET p == Path(route)
    IN  [k \in 1..(Len(p) - 1) |-> DistanceCallback(matrix, p[k], p[k + 1])]

RouteDistance(matrix, route) == SumSeq(ArcCosts(matrix, route))

\* cumul of the Capacity dimension after leaving the nodes of a prefix
CapacityCumul(locs, dels, prefix) ==
    SumSeq([k \in 1..Len(prefix) |-> DemandCallback(locs, dels, prefix[k])])

Orderings(S) ==
    {p \in [1..Cardinality(S) -> S] : \A i, j \in DOMAIN p : p[i] = p[j] => i = j}

\* every way to split the non-depot nodes into one ordered route per vehicle
Assignments(nLoc, nVeh) ==
    LET N == 1..(nLoc - 1)
    IN  {[v \in 1..nVeh |-> SelectSeq(p, LAMBDA x : a[x] = v)] :
            a \in [N -> 1..nVeh], p \in Orderings(N)}

DimensionsHold(locs, vs, dels, matrix, routes) ==
    \A v \in 1..Len(vs) :
        /\ \A prefix \in Prefixes(routes[v]) :
              CapacityCumul(locs, dels, prefix) <= VehicleCapacities(vs)[v]
        /\ RouteDistance(matrix, routes[v]) <= DistanceLimit(vs, v - 1)

FeasibleAssignments(locs, vs, dels, matrix) ==
    {r \in Assignments(Len(locs), Len(vs)) :
        DimensionsHold(locs, vs, dels, matrix, r)}

SearchEnds == {"completed", "time_limit"}

GlobalSpanCostCoefficient == 100

\* solution.ObjectiveValue(): arc costs plus the span cost of the Distance
\* dimension (coefficient * longest route, every route starting at cumul 0)
ObjectiveValue(matrix, routes) ==
    SumSeq([v \in 1..Len(routes) |-> RouteDistance(matrix, routes[v])])
    + GlobalSpanCostCoefficient *
        MaxOf({RouteDistance(matrix, routes[v]) : v \in 1..Len(routes)})

\* solve() with "if solution:" never taken
SolveOutcomeNeverFound(matrix, sol) ==
    [success |-> FALSE, error |-> "No solution found", status |-> "ROUTING_FAIL"]

\* the dict solve() returns for what SolveWithParameters gave
SolveOutcome(matrix, sol) ==
    IF sol # None
    THEN [success |-> TRUE, solution |-> sol,
          total_distance |-> ObjectiveValue(matrix, sol.routes),
          status |-> "ROUTING_SUCCESS"]
    ELSE [success |-> FALSE, error |-> "No solution found",
          status |-> "ROUTING_FAIL"]

\* the except clause of solve() reporting the status of the else branch
SolverErrorAsFail ==
    [success |-> FALSE, error |-> "exception", status |-> "ROUTING_FAIL"]

\* the dict solve() returns from its except clause
SolverError ==
    [success |-> FALSE, error |-> "exception", status |-> "SOLVER_ERROR"]

-----------------------------------------------------------------------------
(* _format_optimization_results                                            *)

\* the stop dict appended for a node of a route
Stop(locs, dels, node, arrival_order) ==
    LET m == IF node = 0 THEN <<>> ELSE MatchingDeliveries(locs, dels, node)
    IN  [location_id |-> At(locs, node).id,
         node |-> node,
         delivery |-> IF m # <<>>
                      THEN [delivery_id |-> Head(m).id,
                            demand |-> Head(m).demand,
                            service_time |-> Head(m).service_time]
                      ELSE None,
         arrival_order |-> arrival_order]

\* the final depot numbered len(route_stops), without the + 1
RouteStopsFinalOrderOff(locs, dels, route) ==
    LET p == Path(route)
    IN  [k \in 1..Len(p) |->
            Stop(locs, dels, p[k], IF k = Len(p) THEN k - 1 ELSE k)]

\* route_stops: the start depot, the visited nodes, then the final depot
RouteStops(locs, dels, route) ==
    LET p == Path(route)
    IN  [k \in 1..Len(p) |-> Stop(locs, dels, p[k], k)]

\* route_load: the demands of the deliveries the stops report
RouteLoad(stops) ==
    SumSeq([k \in 1..Len(stops) |->
        IF stops[k].delivery # None THEN stops[k].delivery.demand ELSE 0])

\* the average speed the duration estimate assumes, in km/h
AverageSpeedKmh == 50

\* estimated_duration_hours in hundredths of an hour:
\* round((route_distance / 1000) / 50, 2), route_distance in metres
EstimatedDuration(route_distance) ==
    RoundHundredths(route_distance, AverageSpeedKmh)

\* round(distance / 1000, 2) in hundredths of a kilometre, distance in metres
DistanceKm(distance) == RoundHundredths(distance, 1)

\* the dict appended to routes for a vehicle; distances in hundredths of a
\* kilometre, the duration in hundredths of an hour
FormatRoute(locs, vs, dels, matrix, routes, vehicle_id) ==
    LET stops == RouteStops(locs, dels, At(routes, vehicle_id))
        route_distance == RouteDistance(matrix, At(routes, vehicle_id))
    IN  [vehicle_id |-> At(vs, vehicle_id).id,
         vehicle_capacity |-> At(vs, vehicle_id).capacity,
         route_distance_km |-> DistanceKm(route_distance),
         route_load |-> RouteLoad(stops),
         stops |-> stops,
         estimated_duration_hours |-> EstimatedDuration(route_distance)]

\* every vehicle's route reported, the depot-to-depot ones included
FormatRoutesAll(locs, vs, dels, matrix, routes) ==
    [k \in 1..Len(vs) |-> FormatRoute(locs, vs, dels, matrix, routes, k - 1)]

\* a vehicle's route is reported if len(route_stops) > 2
FormatRoutes(locs, vs, dels, matrix, routes) ==
    LET all == [k \in 1..Len(vs) |->
                    FormatRoute(locs, vs, dels, matrix, routes, k - 1)]
    IN  SelectSeq(all, LAMBDA r : Len(r.stops) > 2)

\* total_distance: the metres of the routes that are reported
TotalDistance(locs, vs, dels, matrix, routes) ==
    SumSeq([k \in 1..Len(vs) |->
        IF Len(RouteStops(locs, dels, routes[k])) > 2
        THEN RouteDistance(matrix, routes[k]) ELSE 0])

\* datetime.utcnow().isoformat(): the reading of the clock
UtcNow == "utcnow"

FormatResults(opt, locs, vs, dels, matrix) ==
    LET routes == FormatRoutes(locs, vs, dels, matrix, opt.solution.routes)
        total_distance ==
            TotalDistance(locs, vs, dels, matrix, opt.solution.routes)
    IN  [success |-> TRUE,
         optimization_type |-> "vehicle_routing_problem",
         generated_at |-> UtcNow,
         summary |->
            [total_routes |-> Len(routes),
             total_distance_km |-> DistanceKm(total_distance),
             total_load |->
                SumSeq([k \in 1..Len(routes) |-> routes[k].route_load]),
             vehicles_used |-> Len(routes),
             total_deliveries |-> Len(dels),
             average_distance_per_route |->
                RoundHundredths(total_distance,
                                IF Len(routes) > 1 THEN Len(routes) ELSE 1)],
         routes |-> routes,
         optimization_stats |->
            [solver_status |-> opt.status,
             objective_value |-> opt.total_distance,
             locations_count |-> Len(locs),
             vehicles_count |-> Len(vs)]]

-----------------------------------------------------------------------------
(* optimize_delivery_routes and the endpoint in front of it                *)

\* the size check with the depot alone accepted as enough locations
InsufficientDataOffByOne(locs, vs) == Len(locs) < 1 \/ Len(vs) = 0

\* if len(locations) < 2 or len(vehicles_data) == 0
InsufficientData(locs, vs) == Len(locs) < 2 \/ Len(vs) = 0

InsufficientDataError(locs, vs) ==
    [error |-> "Insufficient data for route optimization",
     locations_count |-> Len(locs),
     vehicles_count |-> Len(vs)]

IsError(r) == "error" \in DOMAIN r

\* the endpoint's own checks of the request body
EndpointRejects(reqs, vs) == reqs = <<>> \/ vs = <<>>

HttpError(code, detail) == [http |-> code, detail |-> detail]

HttpOk(body) == [http |-> 200, body |-> body]

\* the endpoint's mapping of the service's return value
EndpointResponse(r) ==
    IF IsError(r) THEN HttpError(400, r.error) ELSE HttpOk(r)

\* an exception that left the try block re-raised instead of returned
OnExceptionReraise(msg) == [raised |-> msg]

\* except Exception as e: the dict returned in place of the exception
OnException(msg) == [error |-> <<"Route optimization failed", msg>>]

\* capacity_utilization divides route_load by the capacity of the vehicle
\* of every reported route: a capacity of 0 raises ZeroDivisionError
FormatRaises(opt, locs, vs, dels, matrix) ==
    \E k \in 1..Len(vs) :
        /\ Len(RouteStops(locs, dels, opt.solution.routes[k])) > 2
        /\ vs[k].capacity = 0

\* insert_one raising with no try around it in _store_optimization_results
StoreOutcomePropagating(r, failed) ==
    IF failed THEN OnException("insert failed") ELSE r

\* what the caller gets after _store_optimization_results: its except
\* clause logs a failed insert and the result is returned as formatted
StoreOutcome(r, failed) == r

RouteInit ==
    /\ pc = "start"
    /\ entry \in {"endpoint", "service"}
    /\ delivery_requests \in
          UNION {[1..n -> DeliveryRequests] : n \in 0..MaxDeliveries}
    /\ vehicles \in UNION {[1..n -> VehicleDicts] : n \in FleetSizes}
    /\ warehouse_doc \in FindOneOutcomes
    /\ locations = <<>>
    /\ vehicles_data = <<>>
    /\ deliveries = <<>>
    /\ distance_matrix = <<>>
    /\ solution = None
    /\ search_end = "none"
    /\ optimization_result = None
    /\ result = None
    /\ response = None
    /\ store = <<>>
    /\ exception = "none"
    /\ insert_failed = FALSE
    \* no allocation batch is in progress
    /\ apc = "idle"
    /\ db_warehouses = <<>>
    /\ warehouse_ids = {}
    /\ warehouses = <<>>
    /\ inventory = <<>>
    /\ orders = <<>>
    /\ allocations = <<>>
    /\ alloc_result = None
    \* no scan of the candidate warehouses is in progress
    /\ scan_w = 0
    /\ scan_i = 0
    /\ scan_st = None
    /\ can_fulfill = TRUE
    /\ covered = {}
    /\ updates = 0
    /\ alone = {}
    /\ writes = EmptyBag
    \* no concurrent requests are in flight
    /\ rpc = [r \in Requests |-> "idle"]
    /\ rinput = [r \in Requests |-> None]
    /\ rlocals = [r \in Requests |-> None]
    /\ rmatrix = [r \in Requests |-> <<>>]
    /\ ropt = [r \in Requests |-> None]
    /\ rresult = [r \in Requests |-> None]
    /\ work_queue = <<>>
    /\ threads = {}

\* the request body and the database's answer do not change during a request
requestVars == <<entry, delivery_requests, vehicles, warehouse_doc>>

\* endpoint: an empty delivery_requests or vehicles list is answered 400
EndpointValidate ==
    /\ pc = "start"
    /\ entry = "endpoint"
    /\ IF EndpointRejects(delivery_requests, vehicles)
       THEN /\ response' = HttpError(400, "empty list")
            /\ pc' = "done"
       ELSE /\ pc' = "prepare"
            /\ UNCHANGED response
    /\ UNCHANGED <<requestVars, locations, vehicles_data,
                   deliveries, distance_matrix, solution, search_end,
                   optimization_result, result, store, exception,
                   insert_failed>>
    /\ UNCHANGED <<allocVars, poolVars, scanVars>>

\* a caller that awaits logistics_service.optimize_delivery_routes itself
ServiceCall ==
    /\ pc = "start"
    /\ entry = "service"
    /\ pc' = "prepare"
    /\ UNCHANGED <<requestVars, locations, vehicles_data,
                   deliveries, distance_matrix, solution, search_end,
                   optimization_result, result, response, store, exception,
                   insert_failed>>
    /\ UNCHANGED <<allocVars, poolVars, scanVars>>

\* the service returned: the endpoint maps the value, a direct caller has it
Return(r) ==
    /\ result' = r
    /\ response' = IF entry = "endpoint" THEN EndpointResponse(r) ELSE r
    /\ pc' = "done"

\* an exception raised inside the try block of optimize_delivery_routes
Raise(msg) ==
    /\ exception' = msg
    /\ Return(OnException(msg))

\* _prepare_optimization_data, then the size check of lines 62-67
Prepare ==
    /\ pc = "prepare"
    /\ IF warehouse_doc = DbError
       THEN /\ Raise(DbError.raises)
            /\ UNCHANGED <<locations, vehicles_data, deliveries>>
       ELSE /\ locations' = PrepareLocations(warehouse_doc, delivery_requests)
            /\ vehicles_data' = PrepareVehicles(vehicles)
            /\ deliveries' = PrepareDeliveries(delivery_requests)
            /\ IF InsufficientData(locations', vehicles_data')
               THEN Return(InsufficientDataError(locations', vehicles_data'))
               ELSE /\ pc' = "matrix"
                    /\ UNCHANGED <<result, response>>
            /\ UNCHANGED exception
    /\ UNCHANGED <<requestVars, distance_matrix, solution, search_end,
                   optimization_result, store, insert_failed>>
    /\ UNCHANGED <<allocVars, poolVars, scanVars>>

CalculateDistanceMatrix ==
    /\ pc = "matrix"
    /\ distance_matrix' = CalculateMatrix(locations)
    /\ pc' = "solve"
    /\ UNCHANGED <<requestVars, locations, vehicles_data,
                   deliveries, solution, search_end, optimization_result,
                   result, response, store, exception, insert_failed>>
    /\ UNCHANGED <<allocVars, poolVars, scanVars>>

\* solve() ran and "if not optimization_result['success']" is not asked:
\* every result goes on to be formatted
SolvedIgnoringFailure(opt) ==
    /\ optimization_result' = opt
    /\ pc' = "format"
    /\ UNCHANGED <<result, response>>

\* solve() ran: a result that is not a success is returned as it is
Solved(opt) ==
    /\ optimization_result' = opt
    /\ IF ~opt.success
       THEN Return(opt)
       ELSE /\ pc' = "format"
            /\ UNCHANGED <<result, response>>

\* _solve_vrp: the library finds one of the feasible assignments
SolveVrpFound ==
    /\ pc = "solve"
    /\ \E r \in FeasibleAssignments(locations, vehicles_data, deliveries,
                                    distance_matrix) :
       \E e \in SearchEnds :
          /\ solution' = [routes |-> r]
          /\ search_end' = e
          /\ Solved(SolveOutcome(distance_matrix, solution'))
    /\ UNCHANGED <<requestVars, locations, vehicles_data,
                   deliveries, distance_matrix, store, exception,
                   insert_failed>>
    /\ UNCHANGED <<allocVars, poolVars, scanVars>>

\* _solve_vrp: the library returns no solution
SolveVrpNone ==
    /\ pc = "solve"
    /\ \E e \in SearchEnds :
          /\ FeasibleAssignments(locations, vehicles_data, deliveries,
                                 distance_matrix) # {} => e = "time_limit"
          /\ search_end' = e
    /\ solution' = None
    /\ Solved(SolveOutcome(distance_matrix, solution'))
    /\ UNCHANGED <<requestVars, locations, vehicles_data,
                   deliveries, distance_matrix, store, exception,
                   insert_failed>>
    /\ UNCHANGED <<allocVars, poolVars, scanVars>>

\* _solve_vrp: the library raises, solve() catches it
SolveVrpRaises ==
    /\ pc = "solve"
    /\ search_end' = "raised"
    /\ solution' = None
    /\ Solved(SolverError)
    /\ UNCHANGED <<requestVars, locations, vehicles_data,
                   deliveries, distance_matrix, store, exception,
                   insert_failed>>
    /\ UNCHANGED <<allocVars, poolVars, scanVars>>

FormatOptimizationResults ==
    /\ pc = "format"
    /\ IF FormatRaises(optimization_result, locations, vehicles_data,
                       deliveries, distance_matrix)
       THEN Raise("float division by zero")
       ELSE /\ result' = FormatResults(optimization_result, locations,
                                       vehicles_data, deliveries,
                                       distance_matrix)
            /\ pc' = "store"
            /\ UNCHANGED <<response, exception>>
    /\ UNCHANGED <<requestVars, locations, vehicles_data,
                   deliveries, distance_matrix, solution, search_end,
                   optimization_result, store, insert_failed>>
    /\ UNCHANGED <<allocVars, poolVars, scanVars>>

\* _store_optimization_results, then return result
StoreOptimizationResults ==
    /\ pc = "store"
    /\ \E failed \in BOOLEAN :
          /\ insert_failed' = (failed /\ result.success)
          /\ store' = IF result.success /\ ~failed
                      THEN Append(store, result) ELSE store
          /\ Return(StoreOutcome(result, insert_failed'))
    /\ UNCHANGED <<requestVars, locations, vehicles_data,
                   deliveries, distance_matrix, solution, search_end,
                   optimization_result, exception>>
    /\ UNCHANGED <<allocVars, poolVars, scanVars>>

RouteNext ==
    \/ EndpointValidate
    \/ ServiceCall
    \/ Prepare
    \/ CalculateDistanceMatrix
    \/ SolveVrpFound
    \/ SolveVrpNone
    \/ SolveVrpRaises
    \/ FormatOptimizationResults
    \/ StoreOptimizationResults

SpecRoute == RouteInit /\ [][RouteNext]_vars

-----------------------------------------------------------------------------
(* Warehouse allocation: input domains                                     *)

Skus == {"X", "Y"}
SkuList == <<"X", "Y">>
Stocks == {0, 3}
RequiredQuantity == 2
WarehouseLats == {0, 3}
CustomerLat == 1
CatalogueSizes == {0, 1, 2}

\* the fields of a db.warehouses document that the allocator reads;
\* current_utilization / storage_capacity is the utilization
WarehouseProfiles ==
    [latitude : WarehouseLats, current_utilization : {0, 1},
     storage_capacity : {1}, has_name : {TRUE}]
    \cup {[latitude |-> 0, current_utilization |-> 1,
           storage_capacity |-> 3, has_name |-> TRUE],
          [latitude |-> 0, current_utilization |-> 1,
           storage_capacity |-> 0, has_name |-> TRUE],
          [latitude |-> 0, current_utilization |-> 0,
           storage_capacity |-> 1, has_name |-> FALSE]}

\* a well-formed warehouse at the reference latitude
PlainProfile ==
    [latitude |-> 0, current_utilization |-> 0, storage_capacity |-> 1,
     has_name |-> TRUE]

\* a warehouse document with the stock of the skus whose inventory document
\* names the warehouse, and the skus whose document is marked discontinued
WarehouseDocs ==
    [profile : WarehouseProfiles,
     stock : UNION {[held -> Stocks] : held \in SUBSET Skus},
     discontinued : {{}}]
    \cup [profile : {PlainProfile},
          stock : {[sku \in Skus |-> IF sku = "X" THEN 3 ELSE 0]},
          discontinued : {{"X"}}]

Line(sku) == [sku |-> sku, quantity |-> RequiredQuantity]

ItemLists == {<<>>, <<Line("X")>>, <<Line("Y")>>, <<Line("X"), Line("Y")>>}

OrderDicts == [customer_latitude : {CustomerLat}, items : ItemLists]

\* the batch as the caller sends it: the order at position k has id k - 1
\* and leaves customer_longitude to the default of its .get()
Batch(os) ==
    [k \in 1..Len(os) |->
        [id |-> k - 1,
         customer_latitude |-> os[k].customer_latitude,
         customer_longitude |-> DefaultCustomerLon,
         items |-> os[k].items]]

\* db.warehouses: the warehouse at position k has warehouse_id k and no
\* longitude field, which .get() reads as -74.0060
Catalogue(ds) ==
    [k \in 1..Len(ds) |->
        [warehouse_id |-> k,
         latitude |-> ds[k].profile.latitude,
         longitude |-> WarehouseLon,
         current_utilization |-> ds[k].profile.current_utilization,
         storage_capacity |-> ds[k].profile.storage_capacity,
         has_name |-> ds[k].profile.has_name]]

\* reorder_level of the inventory documents of the model
ReorderLevel == 1

\* the status create_inventory_item and update_inventory_item derive from a
\* stock level
StockStatus(current_stock, reorder_level) ==
    IF current_stock = 0 THEN "out_of_stock"
    ELSE IF current_stock <= reorder_level THEN "low_stock"
    ELSE "in_stock"

\* the db.inventory documents that name one warehouse, one per sku it holds
ShelfDocs(warehouse_id, d) ==
    LET held == SelectSeq(SkuList, LAMBDA sku : sku \in DOMAIN d.stock)
    IN  [i \in 1..Len(held) |->
            [sku |-> held[i],
             warehouse_id |-> warehouse_id,
             current_stock |-> d.stock[held[i]],
             status |-> IF held[i] \in d.discontinued THEN "discontinued"
                        ELSE StockStatus(d.stock[held[i]], ReorderLevel)]]

\* db.inventory: a list of documents in insertion order
RECURSIVE InventoryFrom(_, _)
InventoryFrom(ds, k) ==
    IF k > Len(ds) THEN <<>>
    ELSE ShelfDocs(k, ds[k]) \o InventoryFrom(ds, k + 1)

Inventory(ds) == InventoryFrom(ds, 1)

\* a document of the collection has the sku
HasSku(inv, sku) == \E i \in 1..Len(inv) : inv[i].sku = sku

\* no two documents of the collection have the same sku: what the unique
\* index of create_indexes keeps
SkuUnique(inv) ==
    \A i, j \in 1..Len(inv) : inv[i].sku = inv[j].sku => i = j

-----------------------------------------------------------------------------
(* _get_warehouses_with_inventory                                          *)

\* the $match / $group pipeline: the warehouse_id values of the documents
\* with current_stock > 0 whose status is not "discontinued"
\* (a document without a status matches $ne; the group of the documents
\* without a warehouse_id has _id None, which no warehouse_id of
\* db.warehouses is $in)
WarehouseIdsWithStock(inv) ==
    {inv[i].warehouse_id :
        i \in {j \in 1..Len(inv) :
                 /\ "warehouse_id" \in DOMAIN inv[j]
                 /\ inv[j].current_stock > 0
                 /\ ("status" \in DOMAIN inv[j] =>
                        inv[j].status # "discontinued")}}

\* db.warehouses.find({"warehouse_id": {"$in": warehouse_ids}})
WarehousesIn(whs, ids) ==
    SelectSeq(whs, LAMBDA w : w.warehouse_id \in ids)

\* what the call returns when nothing writes between its two queries
GetWarehousesWithInventory(whs, inv) ==
    WarehousesIn(whs, WarehouseIdsWithStock(inv))

-----------------------------------------------------------------------------
(* _find_best_warehouse_for_order                                          *)

\* find_one without the current_stock condition
FindOneAnyStock(inv, sku, warehouse_id, quantity) ==
    \E i \in 1..Len(inv) :
        /\ inv[i].sku = sku
        /\ "warehouse_id" \in DOMAIN inv[i]
        /\ inv[i].warehouse_id = warehouse_id

\* db.inventory.find_one({sku, warehouse_id, current_stock: {$gte: quantity}})
\* finds a document
FindOne(inv, sku, warehouse_id, quantity) ==
    \E i \in 1..Len(inv) :
        /\ inv[i].sku = sku
        /\ "warehouse_id" \in DOMAIN inv[i]
        /\ inv[i].warehouse_id = warehouse_id
        /\ inv[i].current_stock >= quantity

\* can_fulfill after the loop over required_items
CanFulfill(inv, order, warehouse) ==
    \A k \in 1..Len(order.items) :
        FindOne(inv, order.items[k].sku, warehouse.warehouse_id,
                order.items[k].quantity)

\* the whole millimetres of the haversine distance (kilometres)
Distance(order, warehouse) ==
    HaversineMm(warehouse.latitude, warehouse.longitude,
                order.customer_latitude, order.customer_longitude)

\* the nanometres of the distance below its millimetres
DistanceRest(order, warehouse) ==
    HaversineRest(warehouse.latitude, warehouse.longitude,
                  order.customer_latitude, order.customer_longitude)

UtilizationWeight == 10

\* what the model does not hold of a float, in nanometres: the rest of a
\* distance is right to a nanometre or two, the rest of a quotient is its
\* floor, and the float operations round in the 16th digit
FloatSlack == 4

\* what the bits below the model's nanometres decide, where they decide:
\*   carry : the sum of two floats reaches the next millimetre
\*   less  : of two scores the model cannot tell apart, the new one is less
\*   exact : a distance whose nanometres are 0 is that decimal exactly
LastBits == [carry : BOOLEAN, less : BOOLEAN, exact : BOOLEAN]

\* <<floor((whole + rest / divisor) * 10^digits), the remainder>>, by long
\* division
RECURSIVE Shifted(_, _, _, _)
Shifted(whole, rest, divisor, digits) ==
    IF digits = 0 THEN <<whole, rest>>
    ELSE Shifted(whole * 10 + (rest * 10) \div divisor,
                 (rest * 10) % divisor, divisor, digits - 1)

\* utilization * 10 kilometres, utilization being current_utilization /
\* storage_capacity: <<whole millimetres, whole nanometres below them>> of
\* the quotient of the integers
UtilizationParts(warehouse) ==
    LET mm == Shifted(warehouse.current_utilization
                          \div warehouse.storage_capacity,
                      warehouse.current_utilization
                          % warehouse.storage_capacity,
                      warehouse.storage_capacity, 7)
    IN  <<mm[1], Shifted(0, mm[2], warehouse.storage_capacity, 6)[1]>>

\* the two floats of utilization * 10 have no rounding error: the quotient
\* is a whole number, or the divisor a power of two
UtilizationIsExact(warehouse) ==
    \/ warehouse.current_utilization % warehouse.storage_capacity = 0
    \/ \E n \in 0..30 : warehouse.storage_capacity = Pow2(n)

\* distance + (utilization * 10) from what the model holds of the two
\* floats: <<millimetres, nanometres below them>>
ScoreSum(order, warehouse) ==
    LET utilization == UtilizationParts(warehouse)
        rest == DistanceRest(order, warehouse) + utilization[2]
    IN  <<Distance(order, warehouse) + utilization[1] + rest \div 1000000,
          rest % 1000000>>

\* score = distance + (utilization * 10) as <<millimetres, nanometres>>:
\* the sum of the floats has the millimetres of ScoreSum unless ScoreSum
\* lies within FloatSlack below a whole millimetre, or, the utilization
\* being a rounded float, within FloatSlack above one; there last_bits
\* says on which side of the millimetre the float lies
Score(order, warehouse, last_bits) ==
    LET sum == ScoreSum(order, warehouse)
    IN  IF sum[2] >= 1000000 - FloatSlack
        THEN IF last_bits.carry THEN <<sum[1] + 1, 0>> ELSE sum
        ELSE IF sum[2] < FloatSlack /\ ~UtilizationIsExact(warehouse)
        THEN IF last_bits.carry THEN sum ELSE <<sum[1] - 1, 999999>>
        ELSE sum

\* the floats a warehouse's score is computed from
ScoreInputs(warehouse) ==
    <<warehouse.latitude, warehouse.longitude,
      warehouse.current_utilization, warehouse.storage_capacity>>

\* score < best_score on the floats. Scores more than FloatSlack
\* nanometres apart compare as their millimetres and nanometres do; the
\* same inputs give the same float, which is not less than itself; two
\* scores from different inputs that lie within FloatSlack of each other
\* compare as their last bits do (last_bits.less).
FloatLess(score, rest, best_score, best_rest, inputs, best_inputs, last_bits) ==
    IF score - best_score > 1 THEN FALSE
    ELSE IF best_score - score > 1 THEN TRUE
    ELSE LET ahead == (score - best_score) * 1000000 + rest - best_rest
         IN  IF ahead < -FloatSlack THEN TRUE
             ELSE IF ahead > FloatSlack THEN FALSE
             ELSE IF inputs = best_inputs THEN FALSE
             ELSE last_bits.less

\* round(x, 2) in hundredths, for a float x >= 0 of mm whole millimetres
\* and rest nanometres below them. A float above or below a decimal tie
\* rounds to its side. A float of exactly the millimetres of a tie (5 in
\* the thousandths, nothing after) is the tie itself only if the tie is a
\* binary fraction, a multiple of 0.125, and exact says it is: then the
\* even hundredth is taken; otherwise the float lies above the tie.
RoundFloat(mm, rest, exact) ==
    LET hundredths == mm \div 10000
        after == mm % 10000
    IN  IF after # 5000 \/ rest # 0
        THEN IF after >= 5000 THEN hundredths + 1 ELSE hundredths
        ELSE IF exact /\ mm % 125000 = 0 /\ hundredths % 2 = 0
        THEN hundredths
        ELSE hundredths + 1

\* best_option: distance_km = round(distance, 2) and
\* estimated_cost = round(distance * 2.0, 2), the doubling being exact
BestOption(order, warehouse, last_bits) ==
    LET distance == Distance(order, warehouse)
        rest == DistanceRest(order, warehouse)
    IN  [order_id |-> order.id,
         warehouse_id |-> warehouse.warehouse_id,
         distance_km |-> RoundFloat(distance, rest, last_bits.exact),
         estimated_cost |->
            RoundFloat(2 * distance + (2 * rest) \div 1000000,
                       (2 * rest) % 1000000, last_bits.exact)]

\* the scan's state before any warehouse is seen: best_score = inf
ScanStart == [best_option |-> None, has_score |-> FALSE, best_score |-> 0,
              best_rest |-> 0, best_inputs |-> <<>>, raised |-> FALSE]

\* the iteration with the comparison turned round: score > best_score
ScoreStepReversed(fulfilled, order, warehouse, st, last_bits) ==
    IF ~fulfilled /\ order.items # <<>> THEN st
    ELSE IF warehouse.storage_capacity = 0
    THEN [st EXCEPT !.raised = TRUE]
    ELSE LET score == Score(order, warehouse, last_bits)
         IN  IF st.has_score
                /\ ~FloatLess(st.best_score, st.best_rest,
                              score[1], score[2],
                              st.best_inputs, ScoreInputs(warehouse),
                              last_bits)
             THEN st
             ELSE IF ~warehouse.has_name
             THEN [st EXCEPT !.raised = TRUE]
             ELSE [best_option |-> BestOption(order, warehouse, last_bits),
                   has_score |-> TRUE,
                   best_score |-> score[1],
                   best_rest |-> score[2],
                   best_inputs |-> ScoreInputs(warehouse),
                   raised |-> FALSE]

\* one iteration of "for warehouse in warehouses" once the loop over the
\* line items has left can_fulfill:
\* "if not can_fulfill and required_items: continue", then the score
ScoreStep(fulfilled, order, warehouse, st, last_bits) ==
    IF ~fulfilled /\ order.items # <<>> THEN st
    ELSE IF warehouse.storage_capacity = 0
    THEN [st EXCEPT !.raised = TRUE]
    ELSE LET score == Score(order, warehouse, last_bits)
         IN  IF st.has_score
                /\ ~FloatLess(score[1], score[2],
                              st.best_score, st.best_rest,
                              ScoreInputs(warehouse), st.best_inputs,
                              last_bits)
             THEN st
             ELSE IF ~warehouse.has_name
             THEN [st EXCEPT !.raised = TRUE]
             ELSE [best_option |-> BestOption(order, warehouse, last_bits),
                   has_score |-> TRUE,
                   best_score |-> score[1],
                   best_rest |-> score[2],
                   best_inputs |-> ScoreInputs(warehouse),
                   raised |-> FALSE]

\* one iteration of "for warehouse in warehouses" on an inventory that does
\* not change; an exception has ended the loop
ScanStep(inv, order, warehouse, st, last_bits) ==
    IF st.raised THEN st
    ELSE ScoreStep(CanFulfill(inv, order, warehouse), order, warehouse, st,
                   last_bits)

\* the states the loop over whs can end in, from the states sts, on an
\* inventory that does not change
RECURSIVE Scan(_, _, _, _)
Scan(inv, order, whs, sts) ==
    IF whs = <<>> THEN sts
    ELSE Scan(inv, order, Tail(whs),
              {ScanStep(inv, order, Head(whs), st, last_bits) :
                  st \in sts, last_bits \in LastBits})

\* return best_option, or None from the except clause
Returned(st) == IF st.raised THEN None ELSE st.best_option

\* the values the call can return on an inventory that does not change
FindBestWarehouseForOrder(inv, order, whs) ==
    {Returned(st) : st \in Scan(inv, order, whs, {ScanStart})}

-----------------------------------------------------------------------------
(* optimize_warehouse_allocation                                           *)

NoSuitableWarehouse(order) ==
    [order_id |-> order.id, error |-> "No suitable warehouse found"]

\* the loop appending an entry without the error key for a failed order
AllocationEntrySilent(best_allocation, order) ==
    IF best_allocation # None THEN best_allocation
    ELSE [order_id |-> order.id]

\* the entry the loop appends for an order
AllocationEntry(best_allocation, order) ==
    IF best_allocation # None THEN best_allocation
    ELSE NoSuitableWarehouse(order)

\* what one line takes from a warehouse's stock of a sku
Taken(order, sku) ==
    SumSeq([k \in 1..Len(order.items) |->
        IF order.items[k].sku = sku THEN order.items[k].quantity ELSE 0])

\* an allocator that reserves the allocated stock
InventoryReserving(inv, order, best_allocation) ==
    IF best_allocation = None THEN inv
    ELSE [i \in 1..Len(inv) |->
            IF /\ "warehouse_id" \in DOMAIN inv[i]
               /\ inv[i].warehouse_id = best_allocation.warehouse_id
            THEN [inv[i] EXCEPT
                    !.current_stock = @ - Taken(order, inv[i].sku)]
            ELSE inv[i]]

\* db.inventory after an order was allocated: the loop writes nothing
InventoryAfterAllocation(inv, order, best_allocation) == inv

NoWarehousesError == [error |-> "No warehouses with inventory found"]

AllocationSummary(os, allocs) ==
    [total_orders |-> Len(os),
     successful_allocations |->
        Cardinality({k \in 1..Len(allocs) : ~IsError(allocs[k])}),
     failed_allocations |->
        Cardinality({k \in 1..Len(allocs) : IsError(allocs[k])}),
     allocations |-> allocs]

\* the entries the loop can append for an order on an inventory that does
\* not change
AllocationEntries(inv, order, whs) ==
    {AllocationEntry(best_allocation, order) :
        best_allocation \in FindBestWarehouseForOrder(inv, order, whs)}

\* what the call can return on a database that nothing writes while it runs
OptimizeWarehouseAllocation(db_whs, inv, os) ==
    LET whs == GetWarehousesWithInventory(db_whs, inv)
        entries == UNION {AllocationEntries(inv, os[k], whs) :
                             k \in 1..Len(os)}
    IN  IF whs = <<>> THEN {NoWarehousesError}
        ELSE {AllocationSummary(os, allocs) :
                allocs \in {a \in [1..Len(os) -> entries] :
                    \A k \in 1..Len(os) :
                        a[k] \in AllocationEntries(inv, os[k], whs)}}

\* the candidates whose stock holds every line of the order in one inventory
CoveringWarehouses(inv, whs, order) ==
    {whs[j].warehouse_id :
        j \in {i \in 1..Len(whs) : CanFulfill(inv, order, whs[i])}}

\* the order the batch loop is at
CurrentOrder == orders[Len(allocations) + 1]

AllocInit ==
    /\ apc = "start"
    /\ \E ds \in UNION {[1..n -> WarehouseDocs] : n \in CatalogueSizes} :
          /\ SkuUnique(Inventory(ds))
          /\ db_warehouses = Catalogue(ds)
          /\ inventory = Inventory(ds)
    /\ \E os \in UNION {[1..n -> OrderDicts] : n \in 0..MaxOrders} :
          orders = Batch(os)
    /\ warehouse_ids = {}
    /\ warehouses = <<>>
    /\ allocations = <<>>
    /\ alloc_result = None
    \* no scan of the candidate warehouses is in progress
    /\ scan_w = 0
    /\ scan_i = 0
    /\ scan_st = None
    /\ can_fulfill = TRUE
    /\ covered = {}
    /\ updates = 0
    /\ alone = {}
    /\ writes = EmptyBag
    \* no routing request is in progress
    /\ pc = "idle"
    /\ entry = "none"
    /\ delivery_requests = <<>>
    /\ vehicles = <<>>
    /\ locations = <<>>
    /\ vehicles_data = <<>>
    /\ deliveries = <<>>
    /\ distance_matrix = <<>>
    /\ solution = None
    /\ search_end = "none"
    /\ optimization_result = None
    /\ result = None
    /\ response = None
    /\ store = <<>>
    /\ warehouse_doc = None
    /\ exception = "none"
    /\ insert_failed = FALSE
    \* no concurrent requests are in flight
    /\ rpc = [r \in Requests |-> "idle"]
    /\ rinput = [r \in Requests |-> None]
    /\ rlocals = [r \in Requests |-> None]
    /\ rmatrix = [r \in Requests |-> <<>>]
    /\ ropt = [r \in Requests |-> None]
    /\ rresult = [r \in Requests |-> None]
    /\ work_queue = <<>>
    /\ threads = {}

\* cursor = db.inventory.aggregate(pipeline);
\* inventory_by_warehouse = await cursor.to_list(length=None)
AggregateInventory ==
    /\ apc = "start"
    /\ warehouse_ids' = WarehouseIdsWithStock(inventory)
    /\ apc' = "find"
    /\ UNCHANGED <<db_warehouses, warehouses, inventory, orders, allocations,
                   alloc_result>>
    /\ UNCHANGED <<routeVars, poolVars, scanVars>>

\* warehouses = await warehouses_cursor.to_list(length=None), back in
\* optimize_warehouse_allocation: if not warehouses: return {"error": ...}
FindWarehouses ==
    /\ apc = "find"
    /\ warehouses' = WarehousesIn(db_warehouses, warehouse_ids)
    /\ IF warehouses' = <<>>
       THEN /\ alloc_result' = NoWarehousesError
            /\ apc' = "done"
       ELSE /\ apc' = "loop"
            /\ UNCHANGED alloc_result
    /\ UNCHANGED <<db_warehouses, warehouse_ids, inventory, orders,
                   allocations>>
    /\ UNCHANGED <<routeVars, poolVars, scanVars>>

\* for order in orders: the call of _find_best_warehouse_for_order begins
BeginOrder ==
    /\ apc = "loop"
    /\ Len(allocations) < Len(orders)
    /\ apc' = "scan"
    /\ scan_w' = 1
    /\ scan_i' = 1
    /\ scan_st' = ScanStart
    /\ can_fulfill' = TRUE
    /\ covered' = CoveringWarehouses(inventory, warehouses, CurrentOrder)
    /\ UNCHANGED <<updates, alone, writes>>
    /\ UNCHANGED <<db_warehouses, warehouse_ids, warehouses, inventory,
                   orders, allocations, alloc_result>>
    /\ UNCHANGED <<routeVars, poolVars>>

\* inventory_item = await db.inventory.find_one(...) for one line item;
\* if not inventory_item: can_fulfill = False; break
CheckItem ==
    /\ apc = "scan"
    /\ ~scan_st.raised
    /\ scan_w <= Len(warehouses)
    /\ scan_i <= Len(CurrentOrder.items)
    /\ LET item == CurrentOrder.items[scan_i]
           warehouse_id == warehouses[scan_w].warehouse_id
       IN  IF FindOne(inventory, item.sku, warehouse_id, item.quantity)
           THEN /\ scan_i' = scan_i + 1
                /\ UNCHANGED can_fulfill
           ELSE /\ scan_i' = Len(CurrentOrder.items) + 1
                /\ can_fulfill' = FALSE
    /\ UNCHANGED <<scan_w, scan_st, covered, updates, alone, writes>>
    /\ UNCHANGED allocVars
    /\ UNCHANGED <<routeVars, poolVars>>

\* the rest of the iteration for one warehouse: skip it, or score it and
\* keep the better option
ScoreWarehouse ==
    /\ apc = "scan"
    /\ ~scan_st.raised
    /\ scan_w <= Len(warehouses)
    /\ scan_i > Len(CurrentOrder.items)
    /\ \E last_bits \in LastBits :
          scan_st' = ScoreStep(can_fulfill, CurrentOrder, warehouses[scan_w],
                               scan_st, last_bits)
    /\ scan_w' = scan_w + 1
    /\ scan_i' = 1
    /\ can_fulfill' = TRUE
    /\ UNCHANGED <<covered, updates, alone, writes>>
    /\ UNCHANGED allocVars
    /\ UNCHANGED <<routeVars, poolVars>>

\* return best_option, or None from the except clause; the batch loop
\* appends the entry of the order
EndOrder ==
    /\ apc = "scan"
    /\ scan_st.raised \/ scan_w > Len(warehouses)
    /\ allocations' =
          Append(allocations, AllocationEntry(Returned(scan_st), CurrentOrder))
    /\ inventory' =
          InventoryAfterAllocation(inventory, CurrentOrder, Returned(scan_st))
    /\ apc' = "loop"
    /\ UNCHANGED scanVars
    /\ UNCHANGED <<db_warehouses, warehouse_ids, warehouses, orders,
                   alloc_result>>
    /\ UNCHANGED <<routeVars, poolVars>>

\* the loop is over: return the summary
AllocReturn ==
    /\ apc = "loop"
    /\ Len(allocations) = Len(orders)
    /\ alloc_result' = AllocationSummary(orders, allocations)
    /\ apc' = "done"
    /\ UNCHANGED <<db_warehouses, warehouse_ids, warehouses, inventory,
                   orders, allocations>>
    /\ UNCHANGED <<routeVars, poolVars, scanVars>>

AllocNext ==
    \/ AggregateInventory
    \/ FindWarehouses
    \/ BeginOrder
    \/ CheckItem
    \/ ScoreWarehouse
    \/ EndOrder
    \/ AllocReturn

SpecAlloc == AllocInit /\ [][AllocNext]_vars

-----------------------------------------------------------------------------
(* An allocation batch while other requests write db.inventory: at every   *)
(* await of the batch the event loop runs other coroutines, among them     *)
(* the writers of the inventory collection,                                *)
(*   InventoryService.create_inventory_item, update_inventory_item and     *)
(*   delete_inventory_item (services/inventory_service.py) and             *)
(*   import_data (api/v1/endpoints/data_import.py).                        *)
(* Each database call of a writer is a step: update_inventory_item and     *)
(* import_data read the sku in one call and write in a later one, and      *)
(* whatever runs between the two finds the collection as the read left it. *)

\* the other requests that begin during the batch
MaxUpdates == 3

\* warehouse documents every field of which the scan can read
LiveWarehouseDocs == {d \in WarehouseDocs : d.profile = PlainProfile}

\* the sizes of db.warehouses the batch runs on beside the writers
LiveCatalogueSizes == {1}

\* the document {"sku": sku} matches first
FirstWithSku(inv, sku) ==
    CHOOSE i \in 1..Len(inv) :
        /\ inv[i].sku = sku
        /\ \A j \in 1..(i - 1) : inv[j].sku # sku

\* {"$set": fields} on a document
SetFields(doc, fields) ==
    [f \in DOMAIN doc \cup DOMAIN fields |->
        IF f \in DOMAIN fields THEN fields[f] ELSE doc[f]]

\* db.inventory.update_one({"sku": sku}, {"$set": fields})
UpdateOne(inv, sku, fields) ==
    IF HasSku(inv, sku)
    THEN [inv EXCEPT ![FirstWithSku(inv, sku)] = SetFields(@, fields)]
    ELSE inv

\* db.inventory.delete_one({"sku": sku})
DeleteOne(inv, sku) ==
    IF HasSku(inv, sku)
    THEN LET i == FirstWithSku(inv, sku)
         IN  SubSeq(inv, 1, i - 1) \o SubSeq(inv, i + 1, Len(inv))
    ELSE inv

\* db.inventory.insert_one(doc): a document whose sku the collection holds
\* raises DuplicateKeyError under the unique index and nothing is written
InsertOne(inv, doc) ==
    IF HasSku(inv, doc.sku) THEN inv ELSE Append(inv, doc)

\* the document has the fields create_inventory_item writes
IsInventoryItem(doc) ==
    {"sku", "warehouse_id", "current_stock", "status"} \subseteq DOMAIN doc

\* update_dict of update_inventory_item for an update of current_stock
StockUpdate(current_stock) ==
    [current_stock |-> current_stock,
     status |-> StockStatus(current_stock, ReorderLevel)]

\* item_dict of create_inventory_item
CreatedItem(sku, warehouse_id, current_stock) ==
    [sku |-> sku,
     warehouse_id |-> warehouse_id,
     current_stock |-> current_stock,
     status |-> StockStatus(current_stock, ReorderLevel)]

\* the fields of an uploaded record that the allocator's queries read,
\* beside its sku: a warehouse_id or a status
ImportRecords(ids) ==
    [warehouse_id : ids] \cup [status : {"discontinued"}]

\* inventory_data of import_data for a sku the collection does not hold:
\* a document without warehouse_id and without status
ImportedItem(sku, record) ==
    [sku |-> sku,
     current_stock |-> IF "current_stock" \in DOMAIN record
                       THEN record.current_stock ELSE 0]

\* a database call a request has prepared and awaits: update_one with the
\* fields to $set, or insert_one with the document
WriteCall(by, call, sku, fields) ==
    [by |-> by, call |-> call, sku |-> sku, fields |-> fields]

\* what import_data prepares for one record after its find_one: nothing for
\* a duplicate it skips, update_one for a duplicate it updates, insert_one
\* for a new sku
ImportCalls(inv, sku, record, skip_duplicates) ==
    IF HasSku(inv, sku)
    THEN IF skip_duplicates THEN {}
         ELSE {WriteCall("import_data", "update_one", sku, record)}
    ELSE {WriteCall("import_data", "insert_one", sku,
                    ImportedItem(sku, record))}

\* db.inventory after an awaited call acts
Written(inv, w) ==
    IF w.call = "update_one" THEN UpdateOne(inv, w.sku, w.fields)
    ELSE InsertOne(inv, w.fields)

\* the warehouses that covered the order at some instant of the call
CoveredAfter(inv) ==
    IF apc = "scan"
    THEN covered \cup CoveringWarehouses(inv, warehouses, CurrentOrder)
    ELSE covered

\* the results of the batch run alone on a database it met since it began
AloneAfter(inv) ==
    alone \cup OptimizeWarehouseAllocation(db_warehouses, inv, orders)

LiveInit ==
    /\ apc = "start"
    /\ \E ds \in UNION {[1..n -> LiveWarehouseDocs] :
                            n \in LiveCatalogueSizes} :
          /\ SkuUnique(Inventory(ds))
          /\ db_warehouses = Catalogue(ds)
          /\ inventory = Inventory(ds)
    /\ \E o \in OrderDicts : orders = Batch(<<o>>)
    /\ warehouse_ids = {}
    /\ warehouses = <<>>
    /\ allocations = <<>>
    /\ alloc_result = None
    \* no scan of the candidate warehouses is in progress
    /\ scan_w = 0
    /\ scan_i = 0
    /\ scan_st = None
    /\ can_fulfill = TRUE
    /\ covered = {}
    /\ updates = 0
    /\ alone = OptimizeWarehouseAllocation(db_warehouses, inventory, orders)
    /\ writes = EmptyBag
    \* no routing request is in progress
    /\ pc = "idle"
    /\ entry = "none"
    /\ delivery_requests = <<>>
    /\ vehicles = <<>>
    /\ locations = <<>>
    /\ vehicles_data = <<>>
    /\ deliveries = <<>>
    /\ distance_matrix = <<>>
    /\ solution = None
    /\ search_end = "none"
    /\ optimization_result = None
    /\ result = None
    /\ response = None
    /\ store = <<>>
    /\ warehouse_doc = None
    /\ exception = "none"
    /\ insert_failed = FALSE
    \* no concurrent requests are in flight
    /\ rpc = [r \in Requests |-> "idle"]
    /\ rinput = [r \in Requests |-> None]
    /\ rlocals = [r \in Requests |-> None]
    /\ rmatrix = [r \in Requests |-> <<>>]
    /\ ropt = [r \in Requests |-> None]
    /\ rresult = [r \in Requests |-> None]
    /\ work_queue = <<>>
    /\ threads = {}

\* what a step of another request leaves alone
WriterFrame ==
    /\ UNCHANGED <<scan_w, scan_i, scan_st, can_fulfill>>
    /\ UNCHANGED <<apc, db_warehouses, warehouse_ids, warehouses, orders,
                   allocations, alloc_result>>
    /\ UNCHANGED <<routeVars, poolVars>>

\* another request's update_inventory_item reads the item of a sku, which
\* get_inventory_item_by_sku parses as an InventoryItem, and prepares
\* update_dict for a new current_stock
UpdateInventoryItem ==
    /\ apc # "done"
    /\ updates < MaxUpdates
    /\ \E sku \in Skus, stock \in Stocks :
          /\ HasSku(inventory, sku)
          /\ IsInventoryItem(inventory[FirstWithSku(inventory, sku)])
          /\ writes' = writes (+)
                SetToBag({WriteCall("update_inventory_item", "update_one",
                                    sku, StockUpdate(stock))})
    /\ updates' = updates + 1
    /\ UNCHANGED <<inventory, covered, alone>>
    /\ WriterFrame

\* its await db.inventory.update_one({"sku": sku}, {"$set": update_dict})
UpdateInventoryItemWrite ==
    /\ apc # "done"
    /\ \E w \in BagToSet(writes) :
          /\ w.by = "update_inventory_item"
          /\ inventory' = Written(inventory, w)
          /\ writes' = writes (-) SetToBag({w})
    /\ covered' = CoveredAfter(inventory')
    /\ alone' = AloneAfter(inventory')
    /\ UNCHANGED updates
    /\ WriterFrame

\* another request's delete_inventory_item
DeleteInventoryItem ==
    /\ apc # "done"
    /\ updates < MaxUpdates
    /\ \E sku \in Skus :
          /\ HasSku(inventory, sku)
          /\ inventory' = DeleteOne(inventory, sku)
    /\ updates' = updates + 1
    /\ covered' = CoveredAfter(inventory')
    /\ alone' = AloneAfter(inventory')
    /\ UNCHANGED writes
    /\ WriterFrame

\* another request's create_inventory_item: its one call is insert_one
CreateInventoryItem ==
    /\ apc # "done"
    /\ updates < MaxUpdates
    /\ \E sku \in Skus, w \in 1..Len(db_warehouses), stock \in Stocks :
          inventory' =
              InsertOne(inventory, CreatedItem(sku, w, stock))
    /\ updates' = updates + 1
    /\ covered' = CoveredAfter(inventory')
    /\ alone' = AloneAfter(inventory')
    /\ UNCHANGED writes
    /\ WriterFrame

\* another request's import_data looks up the sku of one record:
\* existing = await db.inventory.find_one({"sku": record['sku']})
ImportData ==
    /\ apc # "done"
    /\ updates < MaxUpdates
    /\ \E sku \in Skus, record \in ImportRecords(1..Len(db_warehouses)),
          skip_duplicates \in BOOLEAN :
          writes' = writes (+)
              SetToBag(ImportCalls(inventory, sku, record, skip_duplicates))
    /\ updates' = updates + 1
    /\ UNCHANGED <<inventory, covered, alone>>
    /\ WriterFrame

\* its await db.inventory.update_one or insert_one for the record; a
\* DuplicateKeyError is caught and counted
ImportDataWrite ==
    /\ apc # "done"
    /\ \E w \in BagToSet(writes) :
          /\ w.by = "import_data"
          /\ inventory' = Written(inventory, w)
          /\ writes' = writes (-) SetToBag({w})
    /\ covered' = CoveredAfter(inventory')
    /\ alone' = AloneAfter(inventory')
    /\ UNCHANGED updates
    /\ WriterFrame

LiveNext ==
    \/ AggregateInventory
    \/ FindWarehouses
    \/ BeginOrder
    \/ CheckItem
    \/ ScoreWarehouse
    \/ EndOrder
    \/ AllocReturn
    \/ UpdateInventoryItem
    \/ UpdateInventoryItemWrite
    \/ DeleteInventoryItem
    \/ CreateInventoryItem
    \/ ImportData
    \/ ImportDataWrite

SpecAllocLive == LiveInit /\ [][LiveNext]_vars

-----------------------------------------------------------------------------
(* Concurrent routing requests on the one LogisticsService instance.       *)
(* The event loop runs the coroutines; the two closures calculate() and    *)
(* solve() of a request are handed to self.executor, a ThreadPoolExecutor, *)
(* whose contract is: work items queue in submission order and at most     *)
(* max_workers threads take them.                                          *)

\* ThreadPoolExecutor(max_workers=2)
MaxWorkers == 2

\* the request bodies the concurrent requests carry
PoolInputs ==
    {[delivery_requests |-> <<[customer_id |-> "CUST_A", weight |-> 1]>>,
      vehicles |-> <<[capacity |-> 2, max_distance |-> 5]>>],
     [delivery_requests |-> <<[customer_id |-> "CUST_A", weight |-> 1],
                              [customer_id |-> "CUST_B", weight |-> 1]>>,
      vehicles |-> <<[capacity |-> 2, max_distance |-> 5]>>]}

\* the locals _prepare_optimization_data hands back to a request
PrepareLocals(body) ==
    [locations |-> PrepareLocations(None, body.delivery_requests),
     vehicles_data |-> PrepareVehicles(body.vehicles),
     deliveries |-> PrepareDeliveries(body.delivery_requests)]

\* the data kept in one attribute of the service, where every request reads
\* what the highest-numbered prepared request wrote
ClosureDataShared(r, locals) ==
    locals[CHOOSE q \in DOMAIN locals :
              /\ locals[q] # None
              /\ \A p \in DOMAIN locals : locals[p] # None => p <= q]

\* the data calculate() and solve() of request r close over: the locals
\* and arguments of r's own call
ClosureData(r, locals) == locals[r]

\* every dict solve() can return for the locals and the matrix of a request
SolveOutcomes(locals, matrix) ==
    {SolveOutcome(matrix, [routes |-> a]) :
        a \in FeasibleAssignments(locals.locations, locals.vehicles_data,
                                  locals.deliveries, matrix)}
    \cup {SolveOutcome(matrix, None), SolverError}

\* what optimize_delivery_routes returns once solve() has returned opt
RouteResult(opt, locals, matrix) ==
    IF ~opt.success THEN opt
    ELSE IF FormatRaises(opt, locals.locations, locals.vehicles_data,
                         locals.deliveries, matrix)
         THEN OnException("float division by zero")
         ELSE FormatResults(opt, locals.locations, locals.vehicles_data,
                            locals.deliveries, matrix)

WorkItem(r, job) == [request |-> r, job |-> job]

\* a submitted item is started at once on every submit, whatever runs
WorkerAvailableAlways(running) == TRUE

\* the executor starts a thread only while it has fewer than max_workers
WorkerAvailable(running) == Cardinality(running) < MaxWorkers

PoolInit ==
    /\ rpc = [r \in Requests |-> "prepare"]
    /\ rinput \in [Requests -> PoolInputs]
    /\ rlocals = [r \in Requests |-> None]
    /\ rmatrix = [r \in Requests |-> <<>>]
    /\ ropt = [r \in Requests |-> None]
    /\ rresult = [r \in Requests |-> None]
    /\ work_queue = <<>>
    /\ threads = {}
    \* no single routing request is traced
    /\ pc = "idle"
    /\ entry = "none"
    /\ delivery_requests = <<>>
    /\ vehicles = <<>>
    /\ locations = <<>>
    /\ vehicles_data = <<>>
    /\ deliveries = <<>>
    /\ distance_matrix = <<>>
    /\ solution = None
    /\ search_end = "none"
    /\ optimization_result = None
    /\ result = None
    /\ response = None
    /\ store = <<>>
    /\ warehouse_doc = None
    /\ exception = "none"
    /\ insert_failed = FALSE
    \* no allocation batch is in progress
    /\ apc = "idle"
    /\ db_warehouses = <<>>
    /\ warehouse_ids = {}
    /\ warehouses = <<>>
    /\ inventory = <<>>
    /\ orders = <<>>
    /\ allocations = <<>>
    /\ alloc_result = None
    \* no scan of the candidate warehouses is in progress
    /\ scan_w = 0
    /\ scan_i = 0
    /\ scan_st = None
    /\ can_fulfill = TRUE
    /\ covered = {}
    /\ updates = 0
    /\ alone = {}
    /\ writes = EmptyBag

\* request r prepares its data and hands calculate() to the executor
SubmitMatrix(r) ==
    /\ rpc[r] = "prepare"
    /\ rlocals' = [rlocals EXCEPT ![r] = PrepareLocals(rinput[r])]
    /\ work_queue' = Append(work_queue, WorkItem(r, "matrix"))
    /\ rpc' = [rpc EXCEPT ![r] = "await_matrix"]
    /\ UNCHANGED <<rinput, rmatrix, ropt, rresult, threads>>
    /\ UNCHANGED <<routeVars, allocVars, scanVars>>

\* a thread of the executor takes the oldest queued work item
WorkerStart ==
    /\ work_queue # <<>>
    /\ WorkerAvailable(threads)
    /\ threads' = threads \cup {Head(work_queue)}
    /\ work_queue' = Tail(work_queue)
    /\ UNCHANGED <<rpc, rinput, rlocals, rmatrix, ropt, rresult>>
    /\ UNCHANGED <<routeVars, allocVars, scanVars>>

\* calculate() of request r returns; the request resumes with its matrix
WorkerFinishMatrix(r) ==
    /\ WorkItem(r, "matrix") \in threads
    /\ threads' = threads \ {WorkItem(r, "matrix")}
    /\ rmatrix' = [rmatrix EXCEPT
                     ![r] = CalculateMatrix(ClosureData(r, rlocals).locations)]
    /\ rpc' = [rpc EXCEPT ![r] = "solve"]
    /\ UNCHANGED <<rinput, rlocals, ropt, rresult, work_queue>>
    /\ UNCHANGED <<routeVars, allocVars, scanVars>>

\* request r hands solve() to the executor
SubmitSolve(r) ==
    /\ rpc[r] = "solve"
    /\ work_queue' = Append(work_queue, WorkItem(r, "solve"))
    /\ rpc' = [rpc EXCEPT ![r] = "await_solve"]
    /\ UNCHANGED <<rinput, rlocals, rmatrix, ropt, rresult, threads>>
    /\ UNCHANGED <<routeVars, allocVars, scanVars>>

\* solve() of request r returns one of its possible dicts
WorkerFinishSolve(r) ==
    /\ WorkItem(r, "solve") \in threads
    /\ threads' = threads \ {WorkItem(r, "solve")}
    /\ \E opt \in SolveOutcomes(ClosureData(r, rlocals), rmatrix[r]) :
          ropt' = [ropt EXCEPT ![r] = opt]
    /\ rpc' = [rpc EXCEPT ![r] = "format"]
    /\ UNCHANGED <<rinput, rlocals, rmatrix, rresult, work_queue>>
    /\ UNCHANGED <<routeVars, allocVars, scanVars>>

\* request r, back on the event loop, returns the dict of a failed solve
\* or formats its result and begins the insert_one of
\* _store_optimization_results
FormatRequest(r) ==
    /\ rpc[r] = "format"
    /\ rresult' = [rresult EXCEPT
                     ![r] = RouteResult(ropt[r], rlocals[r], rmatrix[r])]
    /\ rpc' = [rpc EXCEPT
                 ![r] = IF "routes" \in DOMAIN rresult'[r] THEN "store"
                        ELSE "done"]
    /\ UNCHANGED <<rinput, rlocals, rmatrix, ropt, work_queue, threads>>
    /\ UNCHANGED <<routeVars, allocVars, scanVars>>

\* the insert_one of request r into db.logistics_optimizations is over,
\* written or raised and logged, and the request returns its result
FinishRequest(r) ==
    /\ rpc[r] = "store"
    /\ \E failed \in BOOLEAN :
          store' = IF rresult[r].success /\ ~failed
                   THEN Append(store, rresult[r]) ELSE store
    /\ rpc' = [rpc EXCEPT ![r] = "done"]
    /\ UNCHANGED <<rinput, rlocals, rmatrix, ropt, rresult, work_queue,
                   threads>>
    /\ UNCHANGED <<requestVars, pc, locations, vehicles_data, deliveries,
                   distance_matrix, solution, search_end,
                   optimization_result, result, response, exception,
                   insert_failed>>
    /\ UNCHANGED <<allocVars, scanVars>>

PoolNext ==
    \/ \E r \in Requests : SubmitMatrix(r)
    \/ WorkerStart
    \/ \E r \in Requests : WorkerFinishMatrix(r)
    \/ \E r \in Requests : SubmitSolve(r)
    \/ \E r \in Requests : WorkerFinishSolve(r)
    \/ \E r \in Requests : FormatRequest(r)
    \/ \E r \in Requests : FinishRequest(r)

SpecPool == PoolInit /\ [][PoolNext]_vars

\* the executor's threads keep taking work, and every computation that
\* runs terminates
SpecPoolFair ==
    /\ PoolInit
    /\ [][PoolNext]_vars
    /\ WF_vars(WorkerStart)
    /\ \A r \in Requests : WF_vars(WorkerFinishMatrix(r))
    /\ \A r \in Requests : WF_vars(WorkerFinishSolve(r))

-----------------------------------------------------------------------------
(* Properties of a route-optimisation request (SpecRoute)                  *)

RouteDone == pc = "done"

\* the service returned a formatted, successful result
Succeeded == RouteDone /\ "routes" \in DOMAIN result /\ result.success

\* some vehicle of the request has a capacity or a max_distance <= 0
InvalidFleet ==
    \E k \in 1..Len(vehicles) :
        vehicles[k].capacity <= 0 \/ vehicles[k].max_distance <= 0

\* the request succeeded for a fleet whose capacities and max_distances
\* are all positive
SucceededValidFleet == Succeeded /\ ~InvalidFleet

\* the demand of the delivery built from the same request as a node
RealDemand(node) == IF node = 0 THEN 0 ELSE At(deliveries, node - 1).demand

RealLoad(stops) == SumSeq([k \in 1..Len(stops) |-> RealDemand(stops[k].node)])

\* C1: in every route of a returned solution, the real (untruncated) demands
\* of the deliveries served in any prefix of the stop sequence sum to at most
\* the capacity of the route's vehicle.
C1_PrefixLoadWithinCapacity ==
    SucceededValidFleet =>
        \A k \in 1..Len(result.routes) :
            \A prefix \in Prefixes(result.routes[k].stops) :
                RealLoad(prefix) <= result.routes[k].vehicle_capacity

\* C2: in every route of a returned solution, the route's total distance is
\* at most the max_distance of the vehicle that serves it.
C2_RouteWithinOwnMaxDistance ==
    SucceededValidFleet =>
        \A k \in 1..Len(result.routes) :
            result.routes[k].route_distance_km
                <= At(vehicles_data, result.routes[k].vehicle_id).max_distance * 100

\* how many stops of the returned routes report a delivery id
TimesServed(delivery_id) ==
    SumSeq([k \in 1..Len(result.routes) |->
        Cardinality({i \in 1..Len(result.routes[k].stops) :
            /\ result.routes[k].stops[i].delivery # None
            /\ result.routes[k].stops[i].delivery.delivery_id = delivery_id})])

\* C3: a request ends as a failure, or every delivery of the input is a
\* served stop of exactly one route of the result.
C3_EveryDeliveryServedOnce ==
    SucceededValidFleet =>
        \A i \in 1..Len(deliveries) : TimesServed(deliveries[i].id) = 1

\* some delivery is heavier than every vehicle can carry, or the deliveries
\* together are heavier than the fleet can carry
Overloaded ==
    /\ delivery_requests # <<>>
    /\ vehicles # <<>>
    /\ \/ \E i \in 1..Len(delivery_requests) : \A v \in 1..Len(vehicles) :
             delivery_requests[i].weight > vehicles[v].capacity
       \/ SumSeq([i \in 1..Len(delivery_requests) |-> delivery_requests[i].weight])
            > SumSeq([v \in 1..Len(vehicles) |-> vehicles[v].capacity])

\* C4: when a delivery's demand exceeds every vehicle's capacity, or the total
\* demand exceeds the fleet's capacity, the solve ends as the structured
\* failure ROUTING_FAIL (not SOLVER_ERROR) and no routes are returned.
C4_OverloadIsInfeasible ==
    (RouteDone /\ Overloaded /\ ~InvalidFleet /\ search_end # "raised") =>
        /\ "status" \in DOMAIN result
        /\ result.status = "ROUTING_FAIL"
        /\ ~result.success
        /\ store = <<>>

\* the caller got an error: HTTP 400 from the endpoint, an error dict from
\* the service
Rejected ==
    IF entry = "endpoint" THEN response.http = 400 ELSE IsError(response)

\* C5: a request with an empty delivery list or an empty vehicle list is
\* answered with an error; the distance matrix is never built, the solver
\* never runs and nothing is stored.
C5_EmptyListsRejected ==
    (delivery_requests = <<>> \/ vehicles = <<>>) =>
        /\ distance_matrix = <<>>
        /\ search_end = "none"
        /\ optimization_result = None
        /\ store = <<>>
        /\ RouteDone => Rejected

\* C5 witness: the service itself turned down a request without deliveries
C5_Witness ==
    /\ RouteDone
    /\ entry = "service"
    /\ delivery_requests = <<>>
    /\ vehicles # <<>>
    /\ IsError(result)
    /\ result.locations_count = 1

\* the search was cut off by the time limit after a solution had been found
CutOffWithSolution ==
    RouteDone /\ search_end = "time_limit" /\ solution # None

\* C10 as stated: a solve cut off by the time limit returns its solution with
\* solver status TIMED_OUT, and the caller takes it as a success.
C10_TimedOutStatus ==
    CutOffWithSolution =>
        /\ Succeeded
        /\ result.optimization_stats.solver_status = "TIMED_OUT"

\* C10 amended: a solve cut off by the time limit returns the solution the
\* library hands back as a success with solver status ROUTING_SUCCESS, the
\* status of every found solution, and the caller takes it as a success:
\* it is formatted, stored and returned like the result of a search that
\* ended by itself (formatting raises only for a route on a vehicle of
\* capacity 0, whichever way the search ended).
C10_TimeLimitIsSuccess ==
    /\ CutOffWithSolution =>
          /\ optimization_result.success
          /\ optimization_result.status = "ROUTING_SUCCESS"
          /\ optimization_result.solution = solution
          /\ exception = "none" =>
                /\ Succeeded
                /\ result.optimization_stats.solver_status = "ROUTING_SUCCESS"
                /\ ~Rejected
                /\ Len(store) = 1 \/ insert_failed
          /\ exception # "none" =>
                \E k \in 1..Len(vehicles_data) :
                    vehicles_data[k].capacity = 0 /\ solution.routes[k] # <<>>
    /\ (RouteDone /\ solution # None /\ search_end = "completed"
           /\ exception = "none") =>
          /\ Succeeded
          /\ result.optimization_stats.solver_status = "ROUTING_SUCCESS"

\* C10 witness: a time-limited search whose solution went out as HTTP 200
C10_Witness ==
    /\ CutOffWithSolution
    /\ entry = "endpoint"
    /\ response.http = 200
    /\ Len(response.body.routes) >= 1

-----------------------------------------------------------------------------
(* Properties of a warehouse-allocation batch (SpecAlloc)                  *)

AllocDone == apc = "done"

\* the candidate with a warehouse id
Candidate(warehouse_id) ==
    CHOOSE w \in {warehouses[i] : i \in 1..Len(warehouses)} :
        w.warehouse_id = warehouse_id

Candidates == {warehouses[i] : i \in 1..Len(warehouses)}

\* an inventory document of the warehouse holds the sku at the quantity
InStock(warehouse_id, sku, quantity) ==
    \E d \in 1..Len(inventory) :
        /\ DOMAIN inventory[d] = {"sku", "warehouse_id", "current_stock",
                                  "status"}
        /\ inventory[d].sku = sku
        /\ inventory[d].warehouse_id = warehouse_id
        /\ inventory[d].current_stock >= quantity

\* the warehouse's stock holds every line of the order at its quantity
Covers(warehouse, order) ==
    \A i \in 1..Len(order.items) :
        InStock(warehouse.warehouse_id, order.items[i].sku,
                order.items[i].quantity)

\* the entry of the k-th order is an allocation
Allocated(k) == k <= Len(allocations) /\ ~IsError(allocations[k])

\* the score of the one warehouse is less than the score of the other,
\* whatever the last bits of the floats
ScoreIsLess(order, warehouse, other) ==
    \A last_bits \in LastBits :
        LET score == Score(order, warehouse, last_bits)
            other_score == Score(order, other, last_bits)
        IN  FloatLess(score[1], score[2], other_score[1], other_score[2],
                      ScoreInputs(warehouse), ScoreInputs(other), last_bits)

\* C6: an order with at least one line is only ever allocated to a warehouse
\* whose stock covers every line of the order.
C6_AllocatedWarehouseCoversOrder ==
    \A k \in 1..Len(allocations) :
        (Allocated(k) /\ orders[k].items # <<>>) =>
            Covers(Candidate(allocations[k].warehouse_id), orders[k])

\* C6 witness: an order with a line went to the warehouse that covers it
\* although a candidate with a lower score, which holds another sku, lacks
\* the line
C6_Witness ==
    \E k \in 1..Len(allocations) :
        /\ Allocated(k)
        /\ orders[k].items # <<>>
        /\ Covers(Candidate(allocations[k].warehouse_id), orders[k])
        /\ \E w \in Candidates :
              /\ ~Covers(w, orders[k])
              /\ w.storage_capacity > 0
              /\ ScoreIsLess(orders[k], w,
                              Candidate(allocations[k].warehouse_id))

\* C7: the warehouse an order is allocated to has the least score, distance
\* plus ten times utilization, of all candidates that cover the order.
C7_AllocatedWarehouseHasLeastScore ==
    \A k \in 1..Len(allocations) :
        Allocated(k) =>
            \A w \in Candidates :
                Covers(w, orders[k]) =>
                    ~ScoreIsLess(orders[k], w,
                                 Candidate(allocations[k].warehouse_id))

\* C7 witness: of two covering candidates the farther, idle one was chosen
\* over the nearer, fully used one. A sku is held by one warehouse, so two
\* candidates cover the same order only when the order has no line: the
\* scan then scores every candidate.
C7_Witness ==
    \E k \in 1..Len(allocations) :
        /\ Allocated(k)
        /\ Len(warehouses) = 2
        /\ \E w \in Candidates :
              /\ Covers(w, orders[k])
              /\ w.warehouse_id # allocations[k].warehouse_id
              /\ Distance(orders[k], w)
                    < Distance(orders[k], Candidate(allocations[k].warehouse_id))
              /\ ScoreIsLess(orders[k],
                              Candidate(allocations[k].warehouse_id), w)

\* the response lists the k-th order at position k
HasEntry(k) ==
    /\ "allocations" \in DOMAIN alloc_result
    /\ Len(alloc_result.allocations) = Len(orders)
    /\ alloc_result.allocations[k].order_id = orders[k].id

\* no candidate can fulfil the order
Unfulfillable(order) ==
    order.items # <<>> /\ \A w \in Candidates : ~Covers(w, order)

\* a candidate that covers the order has no name or a storage capacity
\* of 0: scoring it can raise, and the except clause returns None
CoveringCandidateCanRaise(order) ==
    \E w \in Candidates :
        /\ Covers(w, order)
        /\ ~w.has_name \/ w.storage_capacity = 0

C9_AllocationIsNonReserving ==
    /\ [][(apc \in {"loop", "scan"}) =>
            /\ inventory' = inventory
            /\ warehouses' = warehouses
            /\ db_warehouses' = db_warehouses]_vars
    /\ [](AllocDone =>
            \A k \in 1..Len(allocations) :
                \E best_allocation \in
                      FindBestWarehouseForOrder(inventory, orders[k],
                                                warehouses) :
                    allocations[k] = AllocationEntry(best_allocation, orders[k]))

\* C9 witness: two orders of a batch were given the same warehouse for the
\* same sku although its stock holds only one of them
C9_Witness ==
    /\ AllocDone
    /\ Len(allocations) = 2
    /\ Allocated(1)
    /\ Allocated(2)
    /\ allocations[1].warehouse_id = allocations[2].warehouse_id
    /\ \E sku \in Skus :
          /\ Taken(orders[1], sku) > 0
          /\ Taken(orders[2], sku) > 0
          /\ ~InStock(allocations[1].warehouse_id, sku,
                      Taken(orders[1], sku) + Taken(orders[2], sku))

-----------------------------------------------------------------------------
(* Properties of a routing request: rejected input and failures            *)

\* C11: a request with a vehicle whose capacity or max_distance is <= 0
\* fails before any search is run, and no solution is returned for it.
C11_InvalidFleetFailsFast ==
    InvalidFleet =>
        /\ search_end = "none"
        /\ solution = None
        /\ ~Succeeded

\* the depot id of the request resolved to no warehouse document
DepotNotFound == warehouse_doc = None

\* C12 as stated: a request whose depot id resolves to no warehouse is
\* rejected as an input error and the solver is never run for it.
C12_UnknownDepotRejected ==
    DepotNotFound =>
        /\ search_end = "none"
        /\ RouteDone => Rejected

\* C12: a request whose depot id resolves to no warehouse is not rejected
\* for that: locations[0] is the mock warehouse "Warehouse <id>" at the
\* default coordinates, and with at least one delivery and one vehicle the
\* solver is run on it.
C12_UnknownDepotGetsMock ==
    DepotNotFound =>
        /\ locations # <<>> =>
              locations[1] = [id |-> WarehouseId,
                              name |-> "Warehouse " \o WarehouseId,
                              latitude |-> WarehouseLat,
                              longitude |-> WarehouseLon,
                              type |-> "warehouse"]
        /\ (RouteDone /\ ~InsufficientData(locations, vehicles_data)) =>
              search_end # "none"

C12_Witness == DepotNotFound /\ Succeeded /\ locations[1].latitude = WarehouseLat

\* the request reached _store_optimization_results with a formatted result
ReachedStore == insert_failed \/ store # <<>>

\* C13: when the insert of a completed solution fails, the caller receives
\* exactly the formatted successful result it receives when the insert
\* succeeds.
C13_StoreFailureLeavesResponse ==
    (RouteDone /\ ReachedStore) =>
        /\ result = FormatResults(optimization_result, locations,
                                  vehicles_data, deliveries, distance_matrix)
        /\ response = IF entry = "endpoint" THEN HttpOk(result) ELSE result
        /\ insert_failed => store = <<>>

C13_Witness == RouteDone /\ insert_failed /\ Succeeded /\ store = <<>>

\* an exception was raised while the request was processed
InternalError == exception # "none" \/ search_end = "raised"

\* C14 as stated: an internal error is returned as a failure value that
\* carries diagnostic context (problem size, elapsed time) besides the
\* message and the status.
C14_FailureCarriesDiagnostics ==
    (RouteDone /\ InternalError) =>
        /\ IsError(result)
        /\ DOMAIN result \ {"success", "error", "status"} # {}

\* C14: an internal error never escapes optimize_delivery_routes; the caller
\* gets a dict whose only content is the message ({"error": "Route
\* optimization failed: ..."}, or the solver's success/error/status dict),
\* with no problem size and no elapsed time, and the endpoint answers 400.
C14_FailureIsMessageOnly ==
    (RouteDone /\ InternalError) =>
        /\ IsError(result)
        /\ DOMAIN result \subseteq {"success", "error", "status"}
        /\ exception # "none" =>
              result = [error |-> <<"Route optimization failed", exception>>]
        /\ search_end = "raised" => result = SolverError
        /\ entry = "endpoint" => response = HttpError(400, result.error)

C14_Witness ==
    /\ RouteDone
    /\ exception = "float division by zero"
    /\ solution # None
    /\ entry = "endpoint"

-----------------------------------------------------------------------------
(* Properties of the distance matrix, the reported routes and the status   *)

MatrixBuilt == pc \in {"solve", "format", "store"} \/ (RouteDone /\ search_end # "none")

\* C18: the distance matrix built from a list of N locations is N x N, has
\* a zero diagonal, no negative entry and is symmetric; the pairwise
\* distance itself is symmetric and zero for identical points.
C18_MatrixSquareZeroDiagonalSymmetric ==
    MatrixBuilt =>
        LET N == 1..Len(locations)
        IN  /\ Len(distance_matrix) = Len(locations)
            /\ \A i \in N :
                  /\ Len(distance_matrix[i]) = Len(locations)
                  /\ distance_matrix[i][i] = 0
            /\ \A i, j \in N :
                  /\ distance_matrix[i][j] >= 0
                  /\ distance_matrix[i][j] = distance_matrix[j][i]
                  /\ (/\ locations[i].latitude = locations[j].latitude
                      /\ locations[i].longitude = locations[j].longitude) =>
                        distance_matrix[i][j] = 0

\* three locations, two of them apart and two of them at the same point
C18_Witness ==
    /\ MatrixBuilt
    /\ Len(distance_matrix) = 3
    /\ \E i, j \in 1..3 : distance_matrix[i][j] > 0
    /\ \E i, j \in 1..3 : i # j /\ distance_matrix[i][j] = 0

\* the vehicles the solution gives at least one node to visit
VehiclesWithNodes == {v \in 1..Len(vehicles_data) : solution.routes[v] # <<>>}

\* C19: every route of a successful result serves at least one delivery, a
\* vehicle whose route is depot-to-depot is left out, and vehicles_used is
\* the number of reported routes.
C19_ReportedRoutesServeDeliveries ==
    Succeeded =>
        /\ \A k \in 1..Len(result.routes) :
              /\ \E n \in 1..Len(result.routes[k].stops) :
                    result.routes[k].stops[n].delivery # None
              /\ (result.routes[k].vehicle_id + 1) \in VehiclesWithNodes
        /\ Len(result.routes) = Cardinality(VehiclesWithNodes)
        /\ result.summary.vehicles_used = Len(result.routes)
        /\ result.summary.total_routes = Len(result.routes)

\* a fleet of two of which one vehicle stays at the depot
C19_Witness ==
    /\ Succeeded
    /\ Len(vehicles_data) = 2
    /\ Len(result.routes) = 1
    /\ result.summary.vehicles_used = 1

\* the solve of the request has returned
SolveReturned == optimization_result # None

\* every customer node is on exactly one route, exactly once
VisitsEveryNodeOnce(routes) ==
    \A node \in 1..(Len(locations) - 1) :
        Cardinality({<<v, i>> \in (1..Len(routes)) \X (1..Len(locations)) :
                        i <= Len(routes[v]) /\ routes[v][i] = node}) = 1

\* C20 as stated, SOLVED and INFEASIBLE read as the code's ROUTING_SUCCESS
\* and ROUTING_FAIL: a solve ends in exactly one of the three terminal
\* states SOLVED, INFEASIBLE and TIMED_OUT, INFEASIBLE when the instance has
\* no feasible assignment and TIMED_OUT when the time limit cut the search.
C20_SolverStateMachine ==
    SolveReturned =>
        /\ optimization_result.status \in
              {"ROUTING_SUCCESS", "ROUTING_FAIL", "TIMED_OUT"}
        /\ search_end = "time_limit" => optimization_result.status = "TIMED_OUT"
        /\ optimization_result.status = "ROUTING_FAIL" =>
              FeasibleAssignments(locations, vehicles_data, deliveries,
                                  distance_matrix) = {}

\* C20: the solve reports one of the three statuses ROUTING_SUCCESS,
\* ROUTING_FAIL and SOLVER_ERROR. The status is set once, when the solve
\* returns, and never changes afterwards; ROUTING_SUCCESS is reported
\* exactly when the library returned an assignment, which is complete and
\* satisfies the declared dimensions, SOLVER_ERROR exactly when the solve
\* raised, and formatting is entered only after ROUTING_SUCCESS.
C20_TerminalStatusSetOnce ==
    /\ [][/\ SolveReturned => optimization_result' = optimization_result
          /\ optimization_result' # optimization_result =>
                pc = "solve" /\ pc' \in {"format", "done"}]_vars
    /\ [](SolveReturned =>
            /\ optimization_result.status \in
                  {"ROUTING_SUCCESS", "ROUTING_FAIL", "SOLVER_ERROR"}
            /\ optimization_result.status = "ROUTING_SUCCESS" <=>
                  solution # None
            /\ optimization_result.status = "SOLVER_ERROR" <=>
                  search_end = "raised"
            /\ solution # None =>
                  /\ Len(solution.routes) = Len(vehicles_data)
                  /\ VisitsEveryNodeOnce(solution.routes)
                  /\ DimensionsHold(locations, vehicles_data, deliveries,
                                    distance_matrix, solution.routes))
    /\ [](pc \in {"format", "store"} =>
            SolveReturned /\ optimization_result.status = "ROUTING_SUCCESS")

\* a solve that raised, returned to the caller with its status unchanged
C20_Witness ==
    /\ RouteDone
    /\ SolveReturned
    /\ optimization_result.status = "SOLVER_ERROR"
    /\ result = optimization_result

-----------------------------------------------------------------------------
(* Properties of concurrent requests                                       *)

\* the work items handed to the executor and not yet finished
Submitted ==
    {WorkItem(r, "matrix") : r \in {q \in Requests : rpc[q] = "await_matrix"}}
    \cup
    {WorkItem(r, "solve") : r \in {q \in Requests : rpc[q] = "await_solve"}}

Queued == {work_queue[k] : k \in 1..Len(work_queue)}

\* C15: at most max_workers (2) matrix builds and solves run at the same
\* time, a computation submitted beyond that waits in the executor's queue,
\* and every queued computation is eventually run when the threads keep
\* taking work and every running computation terminates: an item leaves
\* the queue only by being started on a thread, and no item stays queued.
C15_PoolBoundsRunningWork ==
    /\ [](Cardinality(threads) <= MaxWorkers)
    /\ [](/\ Queued \cup threads = Submitted
          /\ Queued \cap threads = {}
          /\ Cardinality(Queued) = Len(work_queue))
    /\ [][\A item \in Queued : item \notin Queued' => item \in threads']_vars
    /\ \A r \in Requests : \A job \in {"matrix", "solve"} :
          []<>(WorkItem(r, job) \notin Queued)

\* both threads busy and a third computation waiting in the queue
C15_Witness ==
    /\ Cardinality(threads) = MaxWorkers
    /\ work_queue # <<>>
    /\ \E r \in Requests : WorkItem(r, "solve") \in Queued

\* the results a request with this body can return when it runs alone
ResultsAlone(body) ==
    LET locals == PrepareLocals(body)
        matrix == CalculateMatrix(locals.locations)
    IN  {RouteResult(opt, locals, matrix) : opt \in SolveOutcomes(locals, matrix)}

\* the matrix and the result of a routing request processed together with
\* other routing requests on the shared instance are those the request
\* produces from its own input when it runs alone
RoutingResultAsAlone ==
    \A r \in Requests :
        /\ rpc[r] \in {"solve", "await_solve", "format", "done"} =>
              rmatrix[r] = CalculateMatrix(PrepareLocals(rinput[r]).locations)
        /\ rpc[r] = "done" => rresult[r] \in ResultsAlone(rinput[r])

\* a request has returned a successful result while a request with another
\* body is being computed on a thread of the pool
RoutingBesideAnotherBody ==
    \E r, q \in Requests :
        /\ rinput[r] # rinput[q]
        /\ rpc[r] = "done"
        /\ "routes" \in DOMAIN rresult[r]
        /\ \E job \in {"matrix", "solve"} : WorkItem(q, job) \in threads

-----------------------------------------------------------------------------
(* Properties of the formatted routes and of the summary                   *)

\* C23: every reported route starts at the depot, ends at the depot, has
\* the depot nowhere in between and numbers its stops 1, 2, ..., n.
C23_RouteDepotToDepotNumbered ==
    Succeeded =>
        \A k \in 1..Len(result.routes) :
            LET stops == result.routes[k].stops
                n == Len(stops)
            IN  /\ n >= 2
                /\ stops[1].node = 0 /\ stops[1].location_id = WarehouseId
                /\ stops[n].node = 0 /\ stops[n].location_id = WarehouseId
                /\ \A i \in 2..(n - 1) :
                      stops[i].node # 0 /\ stops[i].location_id # WarehouseId
                /\ \A i \in 1..n : stops[i].arrival_order = i

\* a route of two deliveries: depot, two customers, depot
C23_Witness ==
    /\ Succeeded
    /\ \E k \in 1..Len(result.routes) : Len(result.routes[k].stops) = 4

\* the service times, in minutes, of the deliveries a route's stops report
ServiceMinutes(stops) ==
    SumSeq([i \in 1..Len(stops) |->
        IF stops[i].delivery # None THEN stops[i].delivery.service_time ELSE 0])

\* distance / speed + service time, in hundredths of an hour:
\* 100 * (d / (1000 * 50) + s / 60) = (3 d + 50 * 50 s) / (30 * 50)
DurationWithService(route_distance, minutes) ==
    (2 * (3 * route_distance + 50 * AverageSpeedKmh * minutes)
        + 30 * AverageSpeedKmh) \div (2 * 30 * AverageSpeedKmh)

\* the metres of the k-th reported route: the arc costs of the route the
\* solution gives its vehicle
RouteMetres(k) ==
    RouteDistance(distance_matrix,
                  At(solution.routes, result.routes[k].vehicle_id))

\* C24: the estimated duration of a reported route is its distance divided
\* by 50 km/h plus the service times of the deliveries served on it.
C24_DurationIncludesServiceTimes ==
    SucceededValidFleet =>
        \A k \in 1..Len(result.routes) :
            result.routes[k].estimated_duration_hours =
                DurationWithService(RouteMetres(k),
                                    ServiceMinutes(result.routes[k].stops))

\* C25: the objective value reported with a solution is its total distance,
\* the sum of the distances of its routes.
C25_ObjectiveIsTotalDistance ==
    SucceededValidFleet =>
        result.optimization_stats.objective_value =
            SumSeq([k \in 1..Len(result.routes) |-> RouteMetres(k)])

\* C26: in a successful result the summary's total load is the sum of the
\* demands of all input deliveries and the sum of the per-route loads, and
\* the summary's total distance is the sum of the per-route distances.
C26_SummaryTotals ==
    SucceededValidFleet =>
        /\ result.summary.total_load =
              SumSeq([i \in 1..Len(deliveries) |-> deliveries[i].demand])
        /\ result.summary.total_load =
              SumSeq([k \in 1..Len(result.routes) |-> result.routes[k].route_load])
        /\ result.summary.total_distance_km =
              SumSeq([k \in 1..Len(result.routes) |->
                          result.routes[k].route_distance_km])

\* the delivery built from the same delivery request as the location of a
\* non-depot node: request i gives locations[i + 1] and deliveries[i]
DeliveryOfNode(node) == At(deliveries, node - 1)

\* C29: at every non-depot node the demand charged to the Capacity
\* dimension, and the load the formatter adds for the stop, is the demand of
\* the delivery built from the same request as the node's location.
C29_DemandOfOwnDelivery ==
    /\ (pc \in {"solve", "format", "store"} /\ ~InvalidFleet) =>
          \A node \in 1..(Len(locations) - 1) :
              DemandCallback(locations, deliveries, node)
                  = ToInt(DeliveryOfNode(node).demand)
    /\ SucceededValidFleet =>
          \A k \in 1..Len(result.routes) :
              \A i \in 1..Len(result.routes[k].stops) :
                  LET stop == result.routes[k].stops[i]
                  IN  stop.node # 0 =>
                        /\ stop.delivery # None
                        /\ stop.delivery.delivery_id = DeliveryOfNode(stop.node).id
                        /\ stop.delivery.demand = DeliveryOfNode(stop.node).demand

-----------------------------------------------------------------------------
(* Order of the steps of a routing request                                 *)

\* the moves of a request from one step to the next that keep the order
\* prepare -> matrix -> solve -> format -> store, or leave it by returning
StepOrder ==
    {<<"start", "prepare">>, <<"prepare", "matrix">>, <<"matrix", "solve">>,
     <<"solve", "format">>, <<"format", "store">>}
    \cup {<<step, "done">> :
            step \in {"start", "prepare", "solve", "format", "store"}}

\* C30: the steps of a request run in the order prepare, distance matrix,
\* solve, format, persist; a write to the optimization store is attempted
\* only after formatting, for a result whose solve succeeded, and a failed
\* or rejected request never writes to the store.
C30_StepsInOrderStoreLast ==
    /\ [][pc' # pc => <<pc, pc'>> \in StepOrder]_vars
    /\ [][(store' # store \/ insert_failed' # insert_failed) =>
             /\ pc = "store"
             /\ optimization_result.success
             /\ result = FormatResults(optimization_result, locations,
                                       vehicles_data, deliveries,
                                       distance_matrix)
             /\ store' = IF insert_failed' THEN store
                                           ELSE Append(store, result)]_vars
    /\ [](pc \in {"format", "store"} =>
             /\ distance_matrix # <<>>
             /\ SolveReturned /\ optimization_result.success)
    /\ [](pc = "solve" => distance_matrix # <<>> /\ locations # <<>>)
    /\ []((RouteDone /\ ~Succeeded) => store = <<>> /\ ~insert_failed)

\* a success answered by the endpoint, its result the one stored document
C30_Witness ==
    /\ RouteDone
    /\ Succeeded
    /\ store = <<result>>
    /\ entry = "endpoint"

-----------------------------------------------------------------------------
(* The solution the search hands back at its deadline                      *)

\* the demands of the deliveries of the nodes of a route prefix
PrefixDemand(prefix) ==
    SumSeq([i \in 1..Len(prefix) |-> RealDemand(prefix[i])])

\* C22: the best-so-far solution returned when the time budget ends is
\* feasible: on every route the load after each stop is within the
\* vehicle's capacity and the distance within the vehicle's max_distance.
C22_DeadlineSolutionFeasible ==
    (search_end = "time_limit" /\ solution # None /\ ~InvalidFleet) =>
        \A v \in 1..Len(vehicles_data) :
            /\ \A prefix \in Prefixes(solution.routes[v]) :
                  PrefixDemand(prefix) <= vehicles_data[v].capacity
            /\ RouteDistance(distance_matrix, solution.routes[v])
                  <= vehicles_data[v].max_distance * 1000

-----------------------------------------------------------------------------
(* Properties of an allocation batch: broken candidates                    *)

\* a candidate with a name and a non-zero storage capacity covers the order
\* (every candidate covers an order without lines)
HasEligibleWarehouse(order) ==
    \E w \in Candidates :
        /\ Covers(w, order)
        /\ w.has_name
        /\ w.storage_capacity # 0

\* C28: an order that at least one candidate warehouse covers is allocated
\* to some warehouse and not reported as failed, whatever the data of the
\* other candidates.
C28_EligibleOrderIsAllocated ==
    (AllocDone /\ warehouses # <<>>) =>
        \A k \in 1..Len(orders) :
            HasEligibleWarehouse(orders[k]) =>
                /\ HasEntry(k)
                /\ ~IsError(alloc_result.allocations[k])

\* for an order with a line the other candidates are skipped before any of
\* their fields is read, a sku being held by one warehouse
OrderWithLinesIsAllocated ==
    (AllocDone /\ warehouses # <<>>) =>
        \A k \in 1..Len(orders) :
            (orders[k].items # <<>> /\ HasEligibleWarehouse(orders[k])) =>
                /\ HasEntry(k)
                /\ ~IsError(alloc_result.allocations[k])

-----------------------------------------------------------------------------
(* Properties of an allocation batch with concurrent inventory writes      *)
(* (SpecAllocLive)                                                         *)

\* C27: the stock checks of one allocation call see one inventory snapshot:
\* an order is only ever allocated to a warehouse whose stock, at some single
\* instant of the call, held every line item of the order at its quantity.
C27_AllocatedWarehouseCoveredAtOneInstant ==
    (apc \in {"loop", "done"} /\ allocations # <<>>) =>
        (Allocated(Len(allocations)) =>
            allocations[Len(allocations)].warehouse_id \in covered)

\* C16: requests share no mutable state, so the result of an allocation
\* request processed while other requests run is a result the request
\* produces alone, with the database as it was at some instant of the call.
C16_AllocationResultAsAlone ==
    AllocDone => alloc_result \in alone

====
